---- MODULE Spec2Model ----
(***************************************************************************)
(* Model of the event-ingestion pipeline of Auto_Event_LLM:                *)
(*   - the events table of DatabaseManager (db_manager.py),                *)
(*   - the parallel runner (run_parallel.py) and the two handlers of the   *)
(*     admin console that start it and write the run log,                  *)
(*   - the page life cycle of MultiSiteEventSpider.parse / parse_details.  *)
(* Dates are day numbers; the clock `now` counts days.                     *)
(***************************************************************************)
EXTENDS Integers, Sequences, FiniteSets, TLC

\* ------------------------------------------------------------------ bounds
MaxClock == 1      \* number of clock ticks explored
MaxId == 2         \* number of rows ever inserted into the events table
MaxCommits == 3    \* number of committed writes on the events table
MaxLen == 2        \* length of a collection of upserts applied in two orders
MaxLogEntries == 2 \* number of entries in the run log

\* ------------------------------------------------------------ value sets
NULL == "NULL"     \* Python None / SQL NULL
NoDate == 0        \* the 'N/A' end date
Today0 == 3        \* the day on which the model starts
Names == {"Sagostund"}
Dates == {1, 4}
Urls == {"u1", "u2"}
Versions == {1, 2}
SweepDays == {1}
Workers == {"w1", "w2"}
NoOne == "none"

VARIABLES
  store,        \* rows of the events table
  seq,          \* sqlite_sequence of the events table (last id handed out)
  now,          \* CURRENT_TIMESTAMP
  dbLock,       \* holder of the SQLite write lock, or NoOne
  pcW,          \* per worker: "idle" | "calling" | "executed"
  pend,         \* per worker: the event_data of the upsert in progress
  lastCommit,   \* history: the last committed write on the events table
  commits       \* history: number of committed writes

storeVars == <<store, seq, now, dbLock, pcW, pend, lastCommit, commits>>

\* Two databases that receive the same collection of upserts in two orders.
VARIABLES
  coll,         \* the collection of upserts, in the order emitted
  ordA,         \* upserts still to apply to tblA (the emitted order)
  ordB,         \* upserts still to apply to tblB (a permutation of it)
  tblA,         \* [rows, seq] of the first database
  tblB          \* [rows, seq] of the second database

orderVars == <<coll, ordA, ordB, tblA, tblB>>

\* The admin console, run_parallel.py and the temporary output files.
VARIABLES
  urlTable,        \* scraping_urls: url -> "absent" | "enabled" | "disabled"
  files,           \* temp_outputs/events_{index}.json: "absent", "old", or the run writing it
  orphans,         \* indexes whose spider outlived the run_parallel.py that started it
  runLog,          \* scraping_logs, oldest first
  hPc,             \* per run type: position of the handler
  mPc,             \* per run type: position of run_parallel.main
  sp,              \* per run type and index: state / outcome of run_spider
  outputFiles,     \* per run type: output_files of main
  merged,          \* per run type: the events merge_results collected, as <<writer, index>>
  enabledAtStart   \* history, per run type: the URLs enabled when the run started

runVars == <<urlTable, files, orphans, runLog, hPc, mPc, sp, outputFiles, merged,
             enabledAtStart>>

\* One URL's crawl in universal_spider.py: a callback and its Playwright page.
VARIABLES
  cSite,           \* the site of the response's URL
  cHandler,        \* the callback: "parse" or "parse_details"
  cPc,             \* the callback's position
  pageOpen,        \* the page of response.meta["playwright_page"] is open
  hasSelectors,    \* the selector store has selectors for the URL
  day              \* day_offset of the Skansen loop

crawlVars == <<cSite, cHandler, cPc, pageOpen, hasSelectors, day>>

\* The dashboard's query on the events table (get_events_filtered).
VARIABLES
  fRows,           \* the rows of the events table the query runs on
  fQuery,          \* the arguments of the last call
  fResult          \* what the last call returned: the page and the total

filterVars == <<fRows, fQuery, fResult>>

\* The selector_configs table and its readers and writers.
VARIABLES
  selRows,         \* rows of selector_configs
  selLast,         \* the last call on the table and what it returned
  lastPut          \* history: the arguments of the last save_selectors

selVars == <<selRows, selLast, lastPut>>

\* Selector discovery during the parse of one listing URL.
VARIABLES
  dPc,             \* position of parse in its selector steps
  dHtml,           \* the page's HTML, as far as the validation looks at it
  dSelectors,      \* the local `selectors` of parse
  dCache,          \* orchestrator.selector_cache[domain]
  dWrites,         \* history: the save_selectors calls of the last step
  parses           \* responses parsed so far

discVars == <<dPc, dHtml, dSelectors, dCache, dWrites, parses>>

\* The events one listing URL yields, with the detail requests it makes.
VARIABLES
  eSite,           \* the site of the listing URL
  ePc,             \* "idle", "listing", "details" or "done"
  eRaw,            \* history: what the listing handler read from the page
  eEmitted,        \* the items yielded so far, in order
  eRequests        \* the detail requests not yet answered

emitVars == <<eSite, ePc, eRaw, eEmitted, eRequests>>

\* One date text of a listing and what the two spiders make of it.
VARIABLES
  rToday,          \* datetime.now() of the crawl, as year*10000 + month*100 + day
  rText,           \* the date text: its two parts and what separates them
  rOut             \* who parsed it, and the item's date_iso and end_date_iso

rangeVars == <<rToday, rText, rOut>>

\* The pagination of one browser session: PaginationHandler and the
\* load-more loops of parse.
VARIABLES
  pEntry,          \* who drives the session: "parse" or a caller of handle_pagination
  pSite,           \* the site of the URL
  pPc,             \* the loop the session is in
  pAttempts,       \* the counter of that loop
  pCount,          \* clicks of the current handle_pagination call or loop
  pClicks,         \* history: pagination actions on the session so far
  pCalls           \* calls of handle_pagination on the session so far

pagVars == <<pEntry, pSite, pPc, pAttempts, pCount, pClicks, pCalls>>

\* The dashboard's Reject button on an entry of the page shown.
VARIABLES
  rejected         \* history: the entry last rejected and what delete_event returned

rejVars == <<rejected>>

\* The database file as the constructions of DatabaseManager find it.
VARIABLES
  dbCreated,       \* the tables exist: _init_db has run on this file
  dbUrls,          \* scraping_urls: url -> "absent" | "enabled" | "disabled"
  dbSettings,      \* settings: key -> value, or "absent"
  adminDeleted     \* history: the URLs the admin deleted and has not added again

seedVars == <<dbCreated, dbUrls, dbSettings, adminDeleted>>

\* What each part of the program leaves alone.
otherThanStore == <<orderVars, runVars, crawlVars, filterVars, selVars, discVars, emitVars, rangeVars, pagVars, rejVars, seedVars>>
otherThanOrder == <<storeVars, runVars, crawlVars, filterVars, selVars, discVars, emitVars, rangeVars, pagVars, rejVars, seedVars>>
otherThanRun == <<storeVars, orderVars, crawlVars, filterVars, selVars, discVars, emitVars, rangeVars, pagVars, rejVars, seedVars>>
otherThanCrawl == <<storeVars, orderVars, runVars, filterVars, selVars, discVars, emitVars, rangeVars, pagVars, rejVars, seedVars>>
otherThanFilter == <<storeVars, orderVars, runVars, crawlVars, selVars, discVars, emitVars, rangeVars, pagVars, rejVars, seedVars>>
otherThanSel == <<storeVars, orderVars, runVars, crawlVars, filterVars, discVars, emitVars, rangeVars, pagVars, rejVars, seedVars>>
otherThanDisc == <<storeVars, orderVars, runVars, crawlVars, filterVars, selVars, emitVars, rangeVars, pagVars, rejVars, seedVars>>
otherThanDiscSel == <<storeVars, orderVars, runVars, crawlVars, filterVars, emitVars, rangeVars, pagVars, rejVars, seedVars>>
otherThanEmit == <<storeVars, orderVars, runVars, crawlVars, filterVars, selVars, discVars, rangeVars, pagVars, rejVars, seedVars>>
otherThanRange == <<storeVars, orderVars, runVars, crawlVars, filterVars, selVars, discVars, emitVars, pagVars, rejVars, seedVars>>
otherThanPag == <<storeVars, orderVars, runVars, crawlVars, filterVars, selVars, discVars, emitVars, rangeVars, rejVars, seedVars>>
otherThanReject == <<storeVars, orderVars, runVars, crawlVars, filterVars, selVars, discVars, emitVars, rangeVars, pagVars, seedVars>>
otherThanFilterReject == <<storeVars, orderVars, runVars, crawlVars, selVars, discVars, emitVars, rangeVars, pagVars, seedVars>>
otherThanSeed == <<storeVars, orderVars, runVars, crawlVars, filterVars, selVars, discVars, emitVars, rangeVars, pagVars, rejVars>>

\* ------------------------------------------------------------ event data
\* The dict a spider hands to upsert_event.  The non-identity fields are
\* drawn per "version" so that two upserts of one identity differ in every
\* field.
EventData(n, d, u, v) ==
  [event_name |-> n, date_iso |-> d, event_url |-> u,
   end_date_iso |-> IF v = 1 THEN NoDate ELSE d + 1,
   time |-> IF v = 1 THEN "18:00" ELSE "20:00",
   location |-> IF v = 1 THEN "Hall" ELSE "Garden",
   target_group_normalized |-> IF v = 1 THEN "children" ELSE "adults",
   status |-> IF v = 1 THEN "scheduled" ELSE "cancelled",
   booking_info |-> IF v = 1 THEN "Drop-in" ELSE "Requires booking",
   description |-> IF v = 1 THEN "d1" ELSE "d2"]

\* The identities the spiders emit: the past event is listed under one URL
\* only, the coming one under both.
InputKeys == {k \in Names \X Dates \X Urls : k[2] = 4 \/ k[3] = "u1"}

EventInputs ==
  {EventData(k[1], k[2], k[3], v) : k \in InputKeys, v \in Versions}
    \cup {EventData(NULL, 4, "u1", 1)}

NoEvent == EventData(NULL, 0, NULL, 1)

\* events table: UNIQUE(event_name, date_iso, event_url)
KeyOf(r) == <<r.event_name, r.date_iso, r.event_url>>

\* The row the INSERT arm of upsert_event writes.
NewRow(id, e, ts) ==
  [id |-> id, event_name |-> e.event_name, date_iso |-> e.date_iso,
   event_url |-> e.event_url, end_date_iso |-> e.end_date_iso,
   time |-> e.time, location |-> e.location,
   target_group |-> e.target_group_normalized, status |-> e.status,
   booking_info |-> e.booking_info, description |-> e.description,
   last_scraped |-> ts]

\* The row the DO UPDATE arm of upsert_event leaves: id and identity kept.
UpdatedRow(r, e, ts) ==
  [r EXCEPT !.end_date_iso = e.end_date_iso, !.time = e.time,
            !.location = e.location,
            !.target_group = e.target_group_normalized,
            !.status = e.status, !.booking_info = e.booking_info,
            !.description = e.description, !.last_scraped = ts]

\* NOT NULL columns of the events table.
ViolatesNotNull(e) ==
  e.event_name = NULL \/ e.date_iso = NoDate \/ e.event_url = NULL

Max(a, b) == IF a > b THEN a ELSE b
MaxRowId(rows) ==
  IF rows = {} THEN 0 ELSE CHOOSE m \in {r.id : r \in rows} : \A r \in rows : r.id <= m
\* AUTOINCREMENT: one more than the largest id ever used.
NextId(rows, s) == Max(s, MaxRowId(rows)) + 1

\* ---- mutants of the upsert statement
\* INSERT without the unique constraint.
UpsertPlainInsert(rows, s, e, ts) ==
  [rows |-> rows \cup {NewRow(NextId(rows, s), e, ts)}, seq |-> NextId(rows, s)]

\* DO UPDATE that forgets the description column.
UpsertForgetsDescription(rows, s, e, ts) ==
  IF \E r \in rows : KeyOf(r) = KeyOf(e)
  THEN [rows |-> {IF KeyOf(r) = KeyOf(e)
                  THEN [UpdatedRow(r, e, ts) EXCEPT !.description = r.description]
                  ELSE r : r \in rows},
        seq |-> s]
  ELSE [rows |-> rows \cup {NewRow(NextId(rows, s), e, ts)}, seq |-> NextId(rows, s)]

\* INSERT OR REPLACE: the conflicting row is deleted and a new one inserted.
UpsertReplace(rows, s, e, ts) ==
  [rows |-> {r \in rows : KeyOf(r) # KeyOf(e)} \cup {NewRow(NextId(rows, s), e, ts)},
   seq |-> NextId(rows, s)]

\* ON CONFLICT(event_name, date_iso): the URL is left out of the key.
UpsertKeyWithoutUrl(rows, s, e, ts) ==
  IF \E r \in rows : r.event_name = e.event_name /\ r.date_iso = e.date_iso
  THEN [rows |-> {IF r.event_name = e.event_name /\ r.date_iso = e.date_iso
                  THEN UpdatedRow(r, e, ts) ELSE r : r \in rows},
        seq |-> s]
  ELSE [rows |-> rows \cup {NewRow(NextId(rows, s), e, ts)}, seq |-> NextId(rows, s)]

\* INSERT ... ON CONFLICT(event_name, date_iso, event_url) DO UPDATE SET ...
UpsertRows(rows, s, e, ts) ==
  IF \E r \in rows : KeyOf(r) = KeyOf(e)
  THEN [rows |-> {IF KeyOf(r) = KeyOf(e) THEN UpdatedRow(r, e, ts) ELSE r : r \in rows},
        seq |-> s]
  ELSE [rows |-> rows \cup {NewRow(NextId(rows, s), e, ts)}, seq |-> NextId(rows, s)]


InitStore ==
  /\ store = {}
  /\ seq = 0
  /\ now = Today0
  /\ dbLock = NoOne
  /\ pcW = [w \in Workers |-> "idle"]
  /\ pend = [w \in Workers |-> NoEvent]
  /\ lastCommit = [op |-> "none", e |-> NoEvent, repeat |-> FALSE]
  /\ commits = 0

\* The clock advances.
Tick ==
  /\ now < Today0 + MaxClock
  /\ now' = now + 1
  /\ UNCHANGED <<store, seq, dbLock, pcW, pend, lastCommit, commits>>
  /\ UNCHANGED otherThanStore

\* A worker calls upsert_event(event_data): sqlite3.connect.
UpsertCall(w, e) ==
  /\ pcW[w] = "idle"
  /\ commits < MaxCommits
  /\ pcW' = [pcW EXCEPT ![w] = "calling"]
  /\ pend' = [pend EXCEPT ![w] = e]
  /\ UNCHANGED <<store, seq, now, dbLock, lastCommit, commits>>
  /\ UNCHANGED otherThanStore

\* cursor.execute: the statement takes the write lock; a NOT NULL violation
\* raises IntegrityError and leaves the table alone.
UpsertExecute(w) ==
  /\ pcW[w] = "calling"
  /\ dbLock = NoOne
  /\ IF ViolatesNotNull(pend[w])
     THEN /\ pcW' = [pcW EXCEPT ![w] = "idle"]
          /\ pend' = [pend EXCEPT ![w] = NoEvent]
          /\ UNCHANGED dbLock
     ELSE /\ NextId(store, seq) <= MaxId \/ \E r \in store : KeyOf(r) = KeyOf(pend[w])
          /\ pcW' = [pcW EXCEPT ![w] = "executed"]
          /\ dbLock' = w
          /\ UNCHANGED pend
  /\ UNCHANGED <<store, seq, now, lastCommit, commits>>
  /\ UNCHANGED otherThanStore

\* cursor.execute while another connection holds the lock for longer than
\* the 30 s busy timeout: OperationalError, nothing written.
UpsertBusy(w) ==
  /\ pcW[w] = "calling"
  /\ dbLock # NoOne
  /\ pcW' = [pcW EXCEPT ![w] = "idle"]
  /\ pend' = [pend EXCEPT ![w] = NoEvent]
  /\ UNCHANGED <<store, seq, now, dbLock, lastCommit, commits>>
  /\ UNCHANGED otherThanStore

\* conn.commit(); conn.close()
UpsertCommit(w) ==
  /\ pcW[w] = "executed"
  /\ dbLock = w
  /\ LET res == UpsertRows(store, seq, pend[w], now) IN
       /\ store' = res.rows
       /\ seq' = res.seq
  /\ lastCommit' = [op |-> "upsert", e |-> pend[w],
                    repeat |-> lastCommit.op = "upsert" /\ lastCommit.e = pend[w]]
  /\ commits' = commits + 1
  /\ dbLock' = NoOne
  /\ pcW' = [pcW EXCEPT ![w] = "idle"]
  /\ pend' = [pend EXCEPT ![w] = NoEvent]
  /\ UNCHANGED now
  /\ UNCHANGED otherThanStore

\* delete_event(event_name, date_iso, event_url)
DeleteEvent(n, d, u) ==
  /\ dbLock = NoOne
  /\ commits < MaxCommits
  /\ store' = {r \in store : ~(r.event_name = n /\ r.date_iso = d /\ r.event_url = u)}
  /\ lastCommit' = [op |-> "delete", e |-> NoEvent, repeat |-> FALSE]
  /\ commits' = commits + 1
  /\ UNCHANGED <<seq, now, dbLock, pcW, pend>>
  /\ UNCHANGED otherThanStore

\* delete_old_events(days): DELETE FROM events WHERE date_iso < cutoff
DeleteOldEvents(days) ==
  /\ dbLock = NoOne
  /\ commits < MaxCommits
  /\ store' = {r \in store : ~(r.date_iso < now - days)}
  /\ lastCommit' = [op |-> "sweep", e |-> NoEvent, repeat |-> FALSE]
  /\ commits' = commits + 1
  /\ UNCHANGED <<seq, now, dbLock, pcW, pend>>
  /\ UNCHANGED otherThanStore

\* delete_all_events()
DeleteAllEvents ==
  /\ dbLock = NoOne
  /\ commits < MaxCommits
  /\ store' = {}
  /\ lastCommit' = [op |-> "delete_all", e |-> NoEvent, repeat |-> FALSE]
  /\ commits' = commits + 1
  /\ UNCHANGED <<seq, now, dbLock, pcW, pend>>
  /\ UNCHANGED otherThanStore

NextStore ==
  \/ Tick
  \/ \E w \in Workers, e \in EventInputs : UpsertCall(w, e)
  \/ \E w \in Workers : UpsertExecute(w)
  \/ \E w \in Workers : UpsertBusy(w)
  \/ \E w \in Workers : UpsertCommit(w)
  \/ \E n \in Names, d \in Dates, u \in Urls : DeleteEvent(n, d, u)
  \/ \E days \in SweepDays : DeleteOldEvents(days)
  \/ DeleteAllEvents

\* ------------------------------------------- one collection, two orders
IdleOrder ==
  /\ coll = <<>>
  /\ ordA = <<>>
  /\ ordB = <<>>
  /\ tblA = [rows |-> {}, seq |-> 0]
  /\ tblB = [rows |-> {}, seq |-> 0]

Collections == UNION {[1..n -> EventInputs] : n \in 1..MaxLen}

InitOrder ==
  /\ coll \in Collections
  /\ ordA = coll
  /\ \E p \in Permutations(1..Len(coll)) : ordB = [i \in 1..Len(coll) |-> coll[p[i]]]
  /\ tblA = [rows |-> {}, seq |-> 0]
  /\ tblB = [rows |-> {}, seq |-> 0]

\* upsert_event on a database nobody else writes to: execute and commit.
\* A NOT NULL violation raises and leaves the table alone.
UpsertEvent(tbl, e, ts) ==
  IF ViolatesNotNull(e) THEN tbl ELSE UpsertRows(tbl.rows, tbl.seq, e, ts)

\* The next upsert of the emitted order reaches the first database.
ApplyA ==
  /\ ordA # <<>>
  /\ tblA' = UpsertEvent(tblA, Head(ordA), Today0 + Len(coll) - Len(ordA))
  /\ ordA' = Tail(ordA)
  /\ UNCHANGED <<coll, ordB, tblB>>
  /\ UNCHANGED otherThanOrder

\* The next upsert of the permuted order reaches the second database.
ApplyB ==
  /\ ordB # <<>>
  /\ tblB' = UpsertEvent(tblB, Head(ordB), Today0 + Len(coll) - Len(ordB))
  /\ ordB' = Tail(ordB)
  /\ UNCHANGED <<coll, ordA, tblA>>
  /\ UNCHANGED otherThanOrder

NextOrder ==
  \/ ApplyA
  \/ ApplyB

\* ------------------------------------------------- runs and the run log
RunTimeoutSeconds == 1800     \* subprocess.run(..., timeout=1800) of the handlers
SpiderTimeoutSeconds == 1800  \* subprocess.run(..., timeout=1800) of run_spider
MaxWorkers == 2               \* ProcessPoolExecutor(max_workers=2)

Runs == {"Auto", "Manual"}
\* URLS of run_parallel.py, by index (two of the six).
URLS == [i \in {0, 1} |-> IF i = 0 THEN "lib" ELSE "skansen"]
Idx == DOMAIN URLS
\* default_urls of _init_db: the same list.
DefaultUrls == {URLS[i] : i \in Idx}
AllUrls == DefaultUrls \cup {"new"}
\* The admin's inputs: the URL that is switched off and on, the one added and removed.
ToggledUrl == "skansen"
AddedUrl == "new"

IdleRun ==
  /\ urlTable = [u \in AllUrls |-> IF u \in DefaultUrls THEN "enabled" ELSE "absent"]
  /\ files = [i \in Idx |-> "absent"]
  /\ orphans = {}
  /\ runLog = <<>>
  /\ hPc = [r \in Runs |-> "idle"]
  /\ mPc = [r \in Runs |-> "none"]
  /\ sp = [r \in Runs |-> [i \in Idx |-> "pending"]]
  /\ outputFiles = [r \in Runs |-> {}]
  /\ merged = [r \in Runs |-> {}]
  /\ enabledAtStart = [r \in Runs |-> {}]

\* The URLs run r has started a spider for.
Crawled(r) == {URLS[i] : i \in {j \in Idx : sp[r][j] # "pending"}}

\* The spiders of run r that have not returned.
Running(r) == {i \in Idx : sp[r][i] \in {"running", "hung"}}

\* No handler is waiting for another run.
NoRunInProgress(r) == \A q \in Runs \ {r} : hPc[q] = "idle"

\* get_enabled_urls()
EnabledUrls == {u \in AllUrls : urlTable[u] = "enabled"}

\* add_log(run_type, status, events_found, failures, warnings)
LogEntry(r, status, events, failures) ==
  [type |-> r, status |-> status, events_found |-> events, failures |-> failures]

\* What run_parallel.py prints: banners, per-spider lines, "Done!"; never a
\* "Scraping complete: N events, M failures" line.
MainStdout(r) == [summary |-> FALSE, events |-> 0, failures |-> 0]

ExitCode(r) == IF mPc[r] = "exited" THEN 0 ELSE 1

\* run_scheduled_scrape after subprocess.run returned: the entry it logs.
ScheduledLog(r, out) ==
  IF out.summary
  THEN LogEntry(r, IF out.failures > 0 THEN "Warn" ELSE "OK", out.events, out.failures)
  ELSE LogEntry(r, "Warn", 0, 0)

\* "Scrape Now" after subprocess.run returned: the entries it logs.
ManualLog(r, rc, out) ==
  IF rc = 0
  THEN IF out.summary
       THEN <<LogEntry(r, IF out.failures > 0 THEN "Warn" ELSE "OK", out.events, out.failures)>>
       ELSE <<>>
  ELSE <<LogEntry(r, "Error", 0, 1)>>

\* run_spider's return value: the output path if the file exists once the
\* spider has returned, None on a timeout or any other exception.
SpiderReturn(outcome, exists) ==
  IF outcome \in {"timeout", "exception"} THEN "None"
  ELSE IF exists THEN "path" ELSE "None"

\* The process of run r is gone: its locals with it.  What it wrote and did
\* not remove stays in temp_outputs as an old file.
ProcessGone(r) ==
  /\ mPc' = [mPc EXCEPT ![r] = "none"]
  /\ sp' = [sp EXCEPT ![r] = [i \in Idx |-> "pending"]]
  /\ outputFiles' = [outputFiles EXCEPT ![r] = {}]
  /\ merged' = [merged EXCEPT ![r] = {}]
  /\ files' = [i \in Idx |-> IF files[i] = r THEN "old" ELSE files[i]]

\* A handler starts run_parallel.py as a subprocess.
TriggerRun(r) ==
  /\ hPc[r] = "idle"
  /\ Len(runLog) < MaxLogEntries
  /\ hPc' = [hPc EXCEPT ![r] = "waiting"]
  /\ mPc' = [mPc EXCEPT ![r] = "started"]
  /\ enabledAtStart' = [enabledAtStart EXCEPT ![r] = EnabledUrls]
  /\ UNCHANGED <<urlTable, files, orphans, runLog, sp, outputFiles, merged>>
  /\ UNCHANGED otherThanRun

\* subprocess.run itself raises (the interpreter is missing, ...): the
\* scheduled job logs an Error, "Scrape Now" falls back to scrape_directly,
\* which runs run_parallel.main in the console's process.
LaunchFails(r) ==
  /\ hPc[r] = "idle"
  /\ Len(runLog) < MaxLogEntries
  /\ enabledAtStart' = [enabledAtStart EXCEPT ![r] = EnabledUrls]
  /\ IF r = "Auto"
     THEN /\ runLog' = Append(runLog, LogEntry(r, "Error", 0, 1))
          /\ UNCHANGED <<hPc, mPc>>
     ELSE /\ hPc' = [hPc EXCEPT ![r] = "direct"]
          /\ mPc' = [mPc EXCEPT ![r] = "started"]
          /\ UNCHANGED runLog
  /\ UNCHANGED <<urlTable, files, orphans, sp, outputFiles, merged>>
  /\ UNCHANGED otherThanRun

\* main: os.makedirs(OUTPUT_DIR) and the pool; an error here ends main with
\* a traceback.
MainSetup(r, ok) ==
  /\ mPc[r] = "started"
  /\ mPc' = [mPc EXCEPT ![r] = IF ok THEN "pool" ELSE "crashed"]
  /\ UNCHANGED <<urlTable, files, orphans, runLog, hPc, sp, outputFiles, merged,
                 enabledAtStart>>
  /\ UNCHANGED otherThanRun

\* A pool worker picks up run_spider(url, index) and starts the spider; the
\* site may answer in time or keep the spider busy until it is killed.
SpiderStart(r, i, hangs) ==
  /\ mPc[r] = "pool"
  /\ sp[r][i] = "pending"
  /\ Cardinality(Running(r)) < MaxWorkers
  /\ sp' = [sp EXCEPT ![r][i] = IF hangs THEN "hung" ELSE "running"]
  /\ UNCHANGED <<urlTable, files, orphans, runLog, hPc, mPc, outputFiles, merged,
                 enabledAtStart>>
  /\ UNCHANGED otherThanRun

\* The spider process ends within the time limit: it wrote its output file
\* ("wrote"), ended without writing one ("nowrite"), or subprocess.run
\* raised ("exception").  main appends the returned path to output_files.
SpiderEnd(r, i, outcome) ==
  /\ sp[r][i] = "running"
  /\ LET newFile == IF outcome = "wrote" THEN r ELSE files[i]
         result == SpiderReturn(outcome, newFile # "absent")
     IN /\ files' = [files EXCEPT ![i] = newFile]
        /\ sp' = [sp EXCEPT ![r][i] =
                    IF outcome = "wrote" THEN "wrote"
                    ELSE IF result = "path" THEN "stale" ELSE "none"]
        /\ outputFiles' = [outputFiles EXCEPT ![r] =
                             IF result = "path" THEN @ \cup {i} ELSE @]
  /\ UNCHANGED <<urlTable, orphans, runLog, hPc, mPc, merged, enabledAtStart>>
  /\ UNCHANGED otherThanRun

\* The spider exceeds run_spider's time limit and is killed; it may have
\* written part of its output.  The handler's own time limit on
\* run_parallel.py started earlier, so unless it is the longer one it has
\* expired first and main is no longer there to see this.
SpiderTimeout(r, i, partial) ==
  /\ sp[r][i] = "hung"
  /\ \/ hPc[r] = "direct"
     \/ SpiderTimeoutSeconds < RunTimeoutSeconds
  /\ LET newFile == IF partial THEN r ELSE files[i]
         result == SpiderReturn("timeout", newFile # "absent")
     IN /\ files' = [files EXCEPT ![i] = newFile]
        /\ sp' = [sp EXCEPT ![r][i] = "timeout"]
        /\ outputFiles' = [outputFiles EXCEPT ![r] =
                             IF result = "path" THEN @ \cup {i} ELSE @]
  /\ UNCHANGED <<urlTable, orphans, runLog, hPc, mPc, merged, enabledAtStart>>
  /\ UNCHANGED otherThanRun

\* merge_results(output_files): read the files, write the workbook, remove
\* the files; with no events at all it returns before the cleanup.
MergeResults(r) ==
  /\ mPc[r] = "pool"
  /\ \A i \in Idx : sp[r][i] # "pending" /\ i \notin Running(r)
  /\ LET allEvents == {<<files[i], i>> : i \in {j \in outputFiles[r] : files[j] # "absent"}}
     IN /\ merged' = [merged EXCEPT ![r] = allEvents]
        /\ files' = IF allEvents = {} THEN files
                    ELSE [i \in Idx |-> IF i \in outputFiles[r] THEN "absent" ELSE files[i]]
  /\ mPc' = [mPc EXCEPT ![r] = "exited"]
  /\ UNCHANGED <<urlTable, orphans, runLog, hPc, sp, outputFiles, enabledAtStart>>
  /\ UNCHANGED otherThanRun

\* subprocess.run returns to the handler, which parses stdout and logs.
HandlerReturn(r) ==
  /\ hPc[r] = "waiting"
  /\ mPc[r] \in {"exited", "crashed"}
  /\ runLog' = IF r = "Auto"
               THEN Append(runLog, ScheduledLog(r, MainStdout(r)))
               ELSE runLog \o ManualLog(r, ExitCode(r), MainStdout(r))
  /\ hPc' = [hPc EXCEPT ![r] = "idle"]
  /\ ProcessGone(r)
  /\ UNCHANGED <<urlTable, orphans, enabledAtStart>>
  /\ UNCHANGED otherThanRun

\* The handler's time limit expires: run_parallel.py is killed, an Error is
\* logged.  The spiders it started keep running.  With the spiders running
\* side by side in the pool, a run lasts as long as its slowest spider.
HandlerTimeout(r) ==
  /\ hPc[r] = "waiting"
  /\ mPc[r] = "pool"
  /\ \E i \in Idx : sp[r][i] = "hung"
  /\ orphans' = orphans \cup Running(r)
  /\ runLog' = Append(runLog, LogEntry(r, "Error", 0, 1))
  /\ hPc' = [hPc EXCEPT ![r] = "idle"]
  /\ ProcessGone(r)
  /\ UNCHANGED <<urlTable, enabledAtStart>>
  /\ UNCHANGED otherThanRun

\* scrape_directly returns: None after main ran (result["events"] raises),
\* or {"events": 0, "failures": 1} after an exception; either way one Error.
DirectReturn(r) ==
  /\ hPc[r] = "direct"
  /\ mPc[r] \in {"exited", "crashed"}
  /\ runLog' = Append(runLog, LogEntry(r, "Error", 0, 1))
  /\ hPc' = [hPc EXCEPT ![r] = "idle"]
  /\ ProcessGone(r)
  /\ UNCHANGED <<urlTable, orphans, enabledAtStart>>
  /\ UNCHANGED otherThanRun

\* A spider left behind by a killed run ends, or is killed at its own time
\* limit; either way it may have written its output file.
OrphanEnd(i, wrote) ==
  /\ i \in orphans
  /\ orphans' = orphans \ {i}
  /\ files' = [files EXCEPT ![i] = IF wrote THEN "old" ELSE @]
  /\ UNCHANGED <<urlTable, runLog, hPc, mPc, sp, outputFiles, merged, enabledAtStart>>
  /\ UNCHANGED otherThanRun

\* toggle_url(url_id, enabled)
ToggleUrl(u, enabled) ==
  /\ urlTable[u] # "absent"
  /\ urlTable' = [urlTable EXCEPT ![u] = IF enabled THEN "enabled" ELSE "disabled"]
  /\ UNCHANGED <<files, orphans, runLog, hPc, mPc, sp, outputFiles, merged,
                 enabledAtStart>>
  /\ UNCHANGED otherThanRun

\* add_scraping_url(url, name): a URL already in the table is refused.
AddScrapingUrl(u) ==
  /\ urlTable' = [urlTable EXCEPT ![u] = IF @ = "absent" THEN "enabled" ELSE @]
  /\ UNCHANGED <<files, orphans, runLog, hPc, mPc, sp, outputFiles, merged,
                 enabledAtStart>>
  /\ UNCHANGED otherThanRun

\* delete_scraping_url(url_id)
DeleteScrapingUrl(u) ==
  /\ urlTable[u] # "absent"
  /\ urlTable' = [urlTable EXCEPT ![u] = "absent"]
  /\ UNCHANGED <<files, orphans, runLog, hPc, mPc, sp, outputFiles, merged,
                 enabledAtStart>>
  /\ UNCHANGED otherThanRun

\* Runs are started one at a time; the spiders orphaned by a killed run may
\* still be running when the next run starts.
NextRun ==
  \/ \E r \in Runs : NoRunInProgress(r) /\ TriggerRun(r)
  \/ \E r \in Runs : NoRunInProgress(r) /\ LaunchFails(r)
  \/ \E r \in Runs, ok \in BOOLEAN : MainSetup(r, ok)
  \/ \E r \in Runs, i \in Idx, hangs \in BOOLEAN : SpiderStart(r, i, hangs)
  \/ \E r \in Runs, i \in Idx, o \in {"wrote", "nowrite", "exception"} : SpiderEnd(r, i, o)
  \/ \E r \in Runs, i \in Idx, partial \in BOOLEAN : SpiderTimeout(r, i, partial)
  \/ \E r \in Runs : MergeResults(r)
  \/ \E r \in Runs : HandlerReturn(r)
  \/ \E r \in Runs : HandlerTimeout(r)
  \/ \E r \in Runs : DirectReturn(r)
  \/ \E i \in Idx, wrote \in BOOLEAN : OrphanEnd(i, wrote)
  \/ \E en \in BOOLEAN : ToggleUrl(ToggledUrl, en)
  \/ AddScrapingUrl(AddedUrl)
  \/ DeleteScrapingUrl(AddedUrl)

\* A scheduled run and a "Scrape Now" run side by side: the scheduler's
\* thread and the button's handler take no lock, and both start
\* run_parallel.py in the same directory.  The spiders here end on
\* their own, within the time limits.
NextOverlap ==
  \/ \E r \in Runs : TriggerRun(r)
  \/ \E r \in Runs : MainSetup(r, TRUE)
  \/ \E r \in Runs, i \in Idx : SpiderStart(r, i, FALSE)
  \/ \E r \in Runs, i \in Idx, o \in {"wrote", "nowrite"} : SpiderEnd(r, i, o)
  \/ \E r \in Runs : MergeResults(r)
  \/ \E r \in Runs : HandlerReturn(r)

\* ------------------------------------------- one URL's crawl and its page
MaxDays == 2   \* days the Skansen loop walks through (30 in the spider)

Sites == {"biblioteket", "skansen", "tekniska", "moderna", "armemuseum", "other"}

\* The sites parse schedules parse_details for: Armemuseum's cards, and
\* the items of the generic path.
DetailSites == {"armemuseum", "biblioteket", "other"}

\* is_known_site of parse
IsKnownSite(site) == site # "other"

IdleCrawl ==
  /\ cSite = "other"
  /\ cHandler = "parse"
  /\ cPc = "idle"
  /\ pageOpen = FALSE
  /\ hasSelectors = FALSE
  /\ day = 0

\* Scrapy calls the callback with a response; with playwright_include_page
\* the response carries an open page, which the callback has to close.
\* parse_details also runs for responses without a page.
InitCrawl ==
  /\ cSite \in Sites
  /\ cHandler \in {"parse", "parse_details"}
  /\ cHandler = "parse_details" => cSite \in DetailSites
  /\ cPc = "entry"
  /\ pageOpen \in BOOLEAN
  /\ hasSelectors \in BOOLEAN
  /\ day = 0

\* parse: `if not page: return`
ParseEntry ==
  /\ cHandler = "parse" /\ cPc = "entry"
  /\ cPc' = IF pageOpen THEN "cookies" ELSE "done"
  /\ UNCHANGED <<cSite, cHandler, pageOpen, hasSelectors, day>>
  /\ UNCHANGED otherThanCrawl

\* parse, step A: the cookie banner, inside try/except.
HandleCookies(raises) ==
  /\ cPc = "cookies"
  /\ cPc' = "pagination"
  /\ UNCHANGED <<cSite, cHandler, pageOpen, hasSelectors, day>>
  /\ UNCHANGED otherThanCrawl

\* parse: generic pagination for sites without a handler, inside
\* try/except; then the site handlers are tried in order.
GenericPagination(raises) ==
  /\ cPc = "pagination"
  /\ raises => ~IsKnownSite(cSite)
  /\ cPc' = IF cSite \in {"skansen", "tekniska", "moderna"} THEN cSite ELSE "stepB"
  /\ UNCHANGED <<cSite, cHandler, pageOpen, hasSelectors, day>>
  /\ UNCHANGED otherThanCrawl

\* parse, Skansen handler: one day of the loop.  Reading the date and
\* moving to the next day are inside try/except and end the loop ("stop");
\* get_selectors and the extraction of the day's events are not ("raise").
\* After the loop the page is closed and parse returns.
SkansenDay(outcome) ==
  /\ cPc = "skansen"
  /\ IF outcome = "raise"
     THEN /\ cPc' = "raised"
          /\ UNCHANGED <<pageOpen, day>>
     ELSE IF outcome = "next" /\ day + 1 < MaxDays
     THEN /\ day' = day + 1
          /\ UNCHANGED <<cPc, pageOpen>>
     ELSE /\ pageOpen' = FALSE
          /\ cPc' = "done"
          /\ UNCHANGED day
  /\ UNCHANGED <<cSite, cHandler, hasSelectors>>
  /\ UNCHANGED otherThanCrawl

\* parse, Tekniska handler: get_selectors, then the page is closed and the
\* listing is fetched with cloudscraper inside try/except.
TekniskaHandler(raises) ==
  /\ cPc = "tekniska"
  /\ IF raises
     THEN cPc' = "raised" /\ UNCHANGED pageOpen
     ELSE cPc' = "done" /\ pageOpen' = FALSE
  /\ UNCHANGED <<cSite, cHandler, hasSelectors, day>>
  /\ UNCHANGED otherThanCrawl

\* parse, Moderna handler: get_selectors and page.content(), the items,
\* then the page is closed.
ModernaHandler(raises) ==
  /\ cPc = "moderna"
  /\ IF raises
     THEN cPc' = "raised" /\ UNCHANGED pageOpen
     ELSE cPc' = "done" /\ pageOpen' = FALSE
  /\ UNCHANGED <<cSite, cHandler, hasSelectors, day>>
  /\ UNCHANGED otherThanCrawl

\* parse, step B: scroll (page.evaluate) and the load-more buttons
\* (btn.count / is_visible); only the click is inside try/except.
ScrollAndLoadMore(raises) ==
  /\ cPc = "stepB"
  /\ cPc' = IF raises THEN "raised" ELSE "selectors"
  /\ UNCHANGED <<cSite, cHandler, pageOpen, hasSelectors, day>>
  /\ UNCHANGED otherThanCrawl

\* parse, step C: get_selectors ("store" raises), then selector discovery
\* inside try/except when there are none ("discovery" raises, caught).
\* Armemuseum goes to its handler next.
SelectorsOrDiscovery(raises) ==
  /\ cPc = "selectors"
  /\ cPc' = IF raises = "store" THEN "raised"
            ELSE IF cSite = "armemuseum" THEN "armemuseum" ELSE "stepC"
  /\ UNCHANGED <<cSite, cHandler, pageOpen, hasSelectors, day>>
  /\ UNCHANGED otherThanCrawl

\* parse, Armemuseum handler: get_selectors and page.evaluate for the
\* cards, one detail request per card, then the page is closed.
ArmemuseumHandler(raises) ==
  /\ cPc = "armemuseum"
  /\ IF raises
     THEN cPc' = "raised" /\ UNCHANGED pageOpen
     ELSE cPc' = "done" /\ pageOpen' = FALSE
  /\ UNCHANGED <<cSite, cHandler, hasSelectors, day>>
  /\ UNCHANGED otherThanCrawl

\* parse, step C: clicking through "load more", inside try/except.
LoadMoreClicks(raises) ==
  /\ cPc = "stepC"
  /\ cPc' = "stepD"
  /\ UNCHANGED <<cSite, cHandler, pageOpen, hasSelectors, day>>
  /\ UNCHANGED otherThanCrawl

\* parse, step D: with selectors, extract_with_selectors, whose
\* page.locator(...).all() is outside its try/except; data found skips
\* the AI path.
FastPath(raises, found) ==
  /\ cPc = "stepD"
  /\ (raises \/ found) => hasSelectors
  /\ cPc' = IF raises THEN "raised" ELSE IF found THEN "close" ELSE "stepE"
  /\ UNCHANGED <<cSite, cHandler, pageOpen, hasSelectors, day>>
  /\ UNCHANGED otherThanCrawl

\* parse, step E: page.locator(...).all() for the candidate elements, then
\* the orchestrator inside try/except.
AiPath(raises) ==
  /\ cPc = "stepE"
  /\ cPc' = IF raises THEN "raised" ELSE "close"
  /\ UNCHANGED <<cSite, cHandler, pageOpen, hasSelectors, day>>
  /\ UNCHANGED otherThanCrawl

\* parse: `await page.close()`, then the date filter and the items.
ClosePage ==
  /\ cPc = "close"
  /\ pageOpen' = FALSE
  /\ cPc' = "done"
  /\ UNCHANGED <<cSite, cHandler, hasSelectors, day>>
  /\ UNCHANGED otherThanCrawl

\* parse_details, Armemuseum detail page: without the calendar's data the
\* page is closed and nothing yielded; otherwise the description is read
\* inside try/except, and the page closed in both branches.
DetailsArmemuseum(hasMeta, raises) ==
  /\ cHandler = "parse_details" /\ cPc = "entry"
  /\ cSite = "armemuseum"
  /\ raises => (hasMeta /\ pageOpen)
  /\ pageOpen' = FALSE
  /\ cPc' = "done"
  /\ UNCHANGED <<cSite, cHandler, hasSelectors, day>>
  /\ UNCHANGED otherThanCrawl

\* parse_details, other sites: the text comes from the response when there
\* is no page, else from page.inner_text("body"), after which the page is
\* closed.
DetailsFallback(raises) ==
  /\ cHandler = "parse_details" /\ cPc = "entry"
  /\ cSite # "armemuseum"
  /\ raises => pageOpen
  /\ IF raises
     THEN cPc' = "raised" /\ UNCHANGED pageOpen
     ELSE cPc' = "done" /\ pageOpen' = FALSE
  /\ UNCHANGED <<cSite, cHandler, hasSelectors, day>>
  /\ UNCHANGED otherThanCrawl

NextCrawl ==
  \/ ParseEntry
  \/ \E raises \in BOOLEAN : HandleCookies(raises)
  \/ \E raises \in BOOLEAN : GenericPagination(raises)
  \/ \E o \in {"next", "stop", "raise"} : SkansenDay(o)
  \/ \E raises \in BOOLEAN : TekniskaHandler(raises)
  \/ \E raises \in BOOLEAN : ModernaHandler(raises)
  \/ \E raises \in BOOLEAN : ScrollAndLoadMore(raises)
  \/ \E raises \in {"none", "store", "discovery"} : SelectorsOrDiscovery(raises)
  \/ \E raises \in BOOLEAN : ArmemuseumHandler(raises)
  \/ \E raises \in BOOLEAN : LoadMoreClicks(raises)
  \/ \E raises, found \in BOOLEAN : FastPath(raises, found)
  \/ \E raises \in BOOLEAN : AiPath(raises)
  \/ ClosePage
  \/ \E hasMeta, raises \in BOOLEAN : DetailsArmemuseum(hasMeta, raises)
  \/ \E raises \in BOOLEAN : DetailsFallback(raises)

\* ------------------------------------------- the dashboard's event query
FilterToday == 50        \* datetime.now() of the calls, as a day number
ExpansionCapDays == 30   \* max_expansion_date = today + timedelta(days=30)
WeekDays == 7            \* "This Week": week_end = now + timedelta(days=7)
MonthDays == 30          \* "Next 30 Days": month_end = now + timedelta(days=30)
MaxPage == 3             \* pages asked for
MaxRows == 2             \* rows in the table the query runs on

Min(a, b) == IF a < b THEN a ELSE b

\* <<date_iso, end_date_iso>> of the stored events: single-day and
\* multi-day, begun in the past, reaching past the cap, beginning after
\* it, and one whose end precedes its start.
FilterSpans ==
  {<<FilterToday - 5, NoDate>>, <<FilterToday - 2, FilterToday + 3>>,
   <<FilterToday, NoDate>>, <<FilterToday + 2, FilterToday + 2>>,
   <<FilterToday, FilterToday + 20>>,
   <<FilterToday + 25, FilterToday + 40>>,
   <<FilterToday + 35, FilterToday + 45>>,
   <<FilterToday + 10, FilterToday + 8>>}

\* A stored row with this span; rows with even ids are in the Hall, rows
\* with odd ids come from the first URL.
FilterRow(id, span) ==
  [NewRow(id, EventData("Sagostund", span[1], IF id % 2 = 1 THEN "u1" ELSE "u2",
                        1 + (id % 2)), FilterToday - 6)
     EXCEPT !.end_date_iso = span[2]]

\* The tables of up to MaxRows rows that satisfy the UNIQUE constraint.
FilterTables ==
  {t \in UNION {{{FilterRow(i, f[i]) : i \in 1..n} : f \in [1..n -> FilterSpans]} :
                  n \in 0..MaxRows} :
     \A r1, r2 \in t : KeyOf(r1) = KeyOf(r2) => r1 = r2}

\* The arguments of get_events_filtered the dashboard varies; search,
\* source and target_groups stay at their defaults, which add no condition.
FilterQueries ==
  [venue : {"All Venues", "Hall"},
   date_range : {"All Time", "This Week", "Next 30 Days"},
   filter_date : {NoDate},
   page : 1..MaxPage,
   per_page : {2, 20}]
  \cup
  [venue : {"All Venues"},
   date_range : {"All Time"},
   filter_date : {FilterToday - 5, FilterToday + 2, FilterToday + 28, FilterToday + 38},
   page : {1},
   per_page : {20}]

NoQuery == [venue |-> "All Venues", date_range |-> "All Time", filter_date |-> NoDate,
            page |-> 0, per_page |-> 0]

\* The WHERE clause of get_events_filtered.
MatchesQuery(r, q, today) ==
  /\ q.venue # "All Venues" => r.location = q.venue
  /\ IF q.filter_date # NoDate
     THEN \/ r.date_iso = q.filter_date
          \/ /\ r.date_iso <= q.filter_date
             /\ r.end_date_iso >= q.filter_date
             /\ r.end_date_iso # NoDate
     ELSE /\ \/ r.date_iso >= today
             \/ r.end_date_iso >= today /\ r.end_date_iso # NoDate
          /\ q.date_range = "This Week" => r.date_iso <= today + WeekDays
          /\ q.date_range = "Next 30 Days" => r.date_iso <= today + MonthDays

\* ORDER BY date_iso ASC; rows of one date come in rowid order.
RECURSIVE RowsByDate(_)
RowsByDate(rows) ==
  IF rows = {} THEN <<>>
  ELSE LET first == CHOOSE r \in rows :
                      \A o \in rows : \/ r.date_iso < o.date_iso
                                      \/ r.date_iso = o.date_iso /\ r.id <= o.id
       IN <<first>> \o RowsByDate(rows \ {first})

\* Mutant: the expansion without the cap at today + 30.
ExpandWithoutCap(event, filterDate, today) ==
  IF event.date_iso = NoDate THEN <<event>>
  ELSE IF event.end_date_iso = NoDate THEN <<event>>
  ELSE IF event.date_iso = event.end_date_iso THEN <<event>>
  ELSE LET effectiveEnd == event.end_date_iso
           effectiveStart == Max(event.date_iso, today)
           days == Max(effectiveEnd - effectiveStart + 1, 0)
       IN IF filterDate # NoDate
          THEN IF effectiveStart <= filterDate /\ filterDate <= effectiveEnd
               THEN <<[event EXCEPT !.date_iso = filterDate, !.end_date_iso = NoDate]>>
               ELSE <<>>
          ELSE [i \in 1..days |->
                  [event EXCEPT !.date_iso = effectiveStart + i - 1,
                                !.end_date_iso = NoDate]]

\* _expand_event_across_days(event, filter_date): the entries of one stored
\* event, in date order.
ExpandEventAcrossDays(event, filterDate, today) ==
  IF event.date_iso = NoDate THEN <<event>>
  ELSE IF event.end_date_iso = NoDate THEN <<event>>
  ELSE IF event.date_iso = event.end_date_iso THEN <<event>>
  ELSE LET effectiveEnd == Min(event.end_date_iso, today + ExpansionCapDays)
           effectiveStart == Max(event.date_iso, today)
           days == Max(effectiveEnd - effectiveStart + 1, 0)
       IN IF filterDate # NoDate
          THEN IF effectiveStart <= filterDate /\ filterDate <= effectiveEnd
               THEN <<[event EXCEPT !.date_iso = filterDate, !.end_date_iso = NoDate]>>
               ELSE <<>>
          ELSE [i \in 1..days |->
                  [event EXCEPT !.date_iso = effectiveStart + i - 1,
                                !.end_date_iso = NoDate]]

\* expanded_events.extend(...) over the fetched rows.
RECURSIVE ExpandAll(_, _, _)
ExpandAll(events, filterDate, today) ==
  IF events = <<>> THEN <<>>
  ELSE ExpandEventAcrossDays(Head(events), filterDate, today)
         \o ExpandAll(Tail(events), filterDate, today)

\* list.sort(key=date_iso): stable, entries of one date keep their order.
RECURSIVE InsertByDate(_, _)
InsertByDate(sorted, e) ==
  IF sorted = <<>> THEN <<e>>
  ELSE IF sorted[Len(sorted)].date_iso <= e.date_iso THEN Append(sorted, e)
  ELSE Append(InsertByDate(SubSeq(sorted, 1, Len(sorted) - 1), e), sorted[Len(sorted)])

RECURSIVE SortByDate(_)
SortByDate(events) ==
  IF events = <<>> THEN <<>>
  ELSE InsertByDate(SortByDate(SubSeq(events, 1, Len(events) - 1)), events[Len(events)])

IsFromToday(today, e) == e.date_iso >= today

\* get_events_filtered up to the sort: the expanded events matching the query.
ExpandedEvents(rows, q, today) ==
  LET events == RowsByDate({r \in rows : MatchesQuery(r, q, today)})
      expanded == ExpandAll(events, q.filter_date, today)
      kept == IF q.filter_date = NoDate
              THEN SelectSeq(expanded, LAMBDA e : IsFromToday(today, e))
              ELSE expanded
  IN SortByDate(kept)

\* Mutant: the slice starts one entry late.
PageOffByOne(expanded, page, perPage) ==
  LET startIdx == (page - 1) * perPage + 1
      endIdx == startIdx + perPage
  IN SubSeq(expanded, startIdx + 1, Min(endIdx, Len(expanded)))

\* expanded_events[start_idx:end_idx] of page `page`.
PageOf(expanded, page, perPage) ==
  LET startIdx == (page - 1) * perPage
      endIdx == startIdx + perPage
  IN SubSeq(expanded, startIdx + 1, Min(endIdx, Len(expanded)))

\* get_events_filtered: (paginated_events, total)
GetEventsFiltered(rows, q, today) ==
  LET expanded == ExpandedEvents(rows, q, today)
  IN [events |-> PageOf(expanded, q.page, q.per_page), total |-> Len(expanded)]

IdleFilter ==
  /\ fRows = {}
  /\ fQuery = NoQuery
  /\ fResult = [events |-> <<>>, total |-> 0]

InitFilter ==
  /\ fRows \in FilterTables
  /\ fQuery = NoQuery
  /\ fResult = [events |-> <<>>, total |-> 0]

\* The dashboard calls get_events_filtered.
FilterCall(q) ==
  /\ fQuery' = q
  /\ fResult' = GetEventsFiltered(fRows, q, FilterToday)
  /\ UNCHANGED fRows
  /\ UNCHANGED otherThanFilter

NextFilter == \E q \in FilterQueries : FilterCall(q)

\* ------------------------------------------------- the selector store
MaxBundles == 2   \* rows in selector_configs

\* A path or url_pattern is the sequence of its parts: "/" and the
\* segments between; "*" is the wildcard of a pattern.
\*   ""  "/e"  "/e/"  "/e/t"  "/e/*"  "/o"
SelPaths ==
  {<<>>, <<"/", "e">>, <<"/", "e", "/">>, <<"/", "e", "/", "t">>,
   <<"/", "e", "/", "*">>, <<"/", "o">>}

\* The URLs handed to the store: scheme://[www.]host/path.
SelUrls ==
  [www : BOOLEAN, host : {"d"}, path : SelPaths]
    \cup [www : {FALSE}, host : {"x"}, path : {<<"/", "e">>}]

\* A bundle: container selector and item selectors, in two versions.
SelBundles == {[container |-> "c1", items |-> "i1"], [container |-> "c2", items |-> "i2"]}
Null == [container |-> NULL, items |-> NULL]

\* urlparse(url).netloc.replace("www.", "")
DomainOf(url) == url.host

\* parsed.path.rstrip('/')
RECURSIVE RStripSlash(_)
RStripSlash(path) ==
  IF path # <<>> /\ path[Len(path)] = "/"
  THEN RStripSlash(SubSeq(path, 1, Len(path) - 1))
  ELSE path

\* selector_configs: UNIQUE(domain, url_pattern)
SelKey(row) == <<row.domain, row.url_pattern>>

\* The rows the first SELECT of get_selectors matches.
ExactRows(rows, url) ==
  {r \in rows : /\ r.domain = DomainOf(url)
                /\ \/ r.url_pattern = RStripSlash(url.path)
                   \/ r.url_pattern = Append(RStripSlash(url.path), "/")}

\* The rows the second SELECT ... WHERE domain = ? matches.
DomainRows(rows, url) == {r \in rows : r.domain = DomainOf(url)}

\* What get_selectors can return: fetchone() takes the first row of a
\* SELECT without ORDER BY, so any row of the match.
GetResults(rows, url) ==
  LET matched == IF ExactRows(rows, url) # {} THEN ExactRows(rows, url)
                 ELSE DomainRows(rows, url)
  IN IF matched = {} THEN {Null}
     ELSE {[container |-> r.container, items |-> r.items] : r \in matched}

\* save_selectors: INSERT ... ON CONFLICT(domain, url_pattern) DO UPDATE.
SaveRows(rows, url, bundle) ==
  LET key == <<DomainOf(url), url.path>>
  IN {r \in rows : SelKey(r) # key}
       \cup {[domain |-> key[1], url_pattern |-> key[2],
              container |-> bundle.container, items |-> bundle.items]}

NoUrl == [www |-> FALSE, host |-> NULL, path |-> <<>>]

IdleSel ==
  /\ selRows = {}
  /\ selLast = [op |-> "none", url |-> NoUrl, bundle |-> Null]
  /\ lastPut = [url |-> NoUrl, bundle |-> Null]

\* save_selectors(url, container_selector, item_selectors)
SaveSelectors(url, bundle) ==
  /\ Cardinality(SaveRows(selRows, url, bundle)) <= MaxBundles
  /\ selRows' = SaveRows(selRows, url, bundle)
  /\ selLast' = [op |-> "put", url |-> url, bundle |-> bundle]
  /\ lastPut' = [url |-> url, bundle |-> bundle]
  /\ UNCHANGED otherThanSel

\* get_selectors(url)
GetSelectors(url) ==
  /\ \E res \in GetResults(selRows, url) :
       selLast' = [op |-> "get", url |-> url, bundle |-> res]
  /\ UNCHANGED <<selRows, lastPut>>
  /\ UNCHANGED otherThanSel

NextSel ==
  \/ \E url \in SelUrls, b \in SelBundles : SaveSelectors(url, b)
  \/ \E url \in SelUrls : GetSelectors(url)

\* ------------------------------------------------------ selector discovery
\* universal_spider.parse steps C to E for a URL that has no special
\* handler: get_selectors, SelectorDiscoveryService.discover_and_save,
\* the fast path, EventScraperOrchestrator.scrape_new_website and the
\* save of the cached selectors.  Confidences are in hundredths.
MaxParses == 2   \* responses of the domain one spider parses

SaveThresholdService == 30   \* discover_and_save: confidence > 0.3
SaveThresholdSpider == 50    \* parse: confidence > 0.5
CorrelationThreshold == 60   \* discover_website_structure: overall > 0.6
ValidThreshold == 60         \* _validate_selectors_against_html: < 0.6 is invalid

DiscUrl == [www |-> FALSE, host |-> "d", path |-> <<"/", "e">>]

RequiredFields ==
  {"event_name", "date_iso", "time", "location", "description", "target_group", "status"}

\* A container selector, and len(container).
Containers == {"", "ab", "div.event"}
ContainerLen(c) == IF c = "" THEN 0 ELSE IF c = "ab" THEN 2 ELSE 9

\* What the items dict holds for a field: no entry, a null selector, or
\* a selector that is plain, names a semantic tag, has a class or
\* attribute, or both.
Kinds == {"absent", "null", "plain", "semantic", "class", "both"}
AllOf(kind) == [f \in RequiredFields |-> kind]
ItemChoices ==
  {AllOf("both"),
   [f \in RequiredFields |->
      IF f \in {"event_name", "date_iso"} THEN "semantic" ELSE "absent"],
   [f \in RequiredFields |->
      IF f \in {"event_name", "date_iso", "time", "location"} THEN "both" ELSE "absent"]}

HasSelector(kind) == kind \notin {"absent", "null", "empty"}

\* _validate_selectors: the score of one field's selector.
FieldScore(kind) ==
  IF ~HasSelector(kind) THEN 0
  ELSE 50 + (IF kind \in {"semantic", "both"} THEN 30 ELSE 0)
          + (IF kind \in {"class", "both"} THEN 20 ELSE 0)

RECURSIVE SumScores(_, _)
SumScores(items, fields) ==
  IF fields = {} THEN 0
  ELSE LET f == CHOOSE x \in fields : TRUE
       IN FieldScore(items[f]) + SumScores(items, fields \ {f})

\* _validate_selectors: confidence.overall,
\* round(total_score / len(required_fields), 2).
Quality(container, items) ==
  IF container = "" \/ ContainerLen(container) < 3 THEN 0
  ELSE (2 * SumScores(items, RequiredFields) + Cardinality(RequiredFields))
         \div (2 * Cardinality(RequiredFields))

\* The HTML: how many elements a non-empty container selector matches in
\* it and the fields whose selector matches inside the containers.
Htmls ==
  [containerMatches : {0, 2},
   working : {{}, {"event_name", "date_iso"}, RequiredFields}]

\* _validate_selectors_against_html
ValidateAgainstHtml(container, items, html) ==
  IF container = "" THEN [valid |-> FALSE, container_matches |-> 0, adjusted_confidence |-> 0]
  ELSE IF html.containerMatches = 0
  THEN [valid |-> FALSE, container_matches |-> 0, adjusted_confidence |-> 0]
  ELSE LET tested == {f \in RequiredFields : HasSelector(items[f])}
           passed == tested \cap html.working
           adjusted == IF tested # {}
                       THEN (100 * Cardinality(passed)) \div Cardinality(tested)
                       ELSE 100
       IN [valid |-> ~(adjusted < ValidThreshold),
           container_matches |-> html.containerMatches,
           adjusted_confidence |-> adjusted]

\* What an AI call answers: nothing usable, or selectors, with the
\* confidence it reports for them.
NoAnswer == [selectors |-> FALSE, container |-> "", items |-> AllOf("absent"), reported |-> 0]
AiAnswers ==
  {NoAnswer} \cup [selectors : {TRUE}, container : Containers, items : ItemChoices,
                   reported : {40, 90}]

NoValidation == [valid |-> FALSE, container_matches |-> 0, adjusted_confidence |-> 0]

NoDiscovery ==
  [selectors |-> FALSE, container |-> "", items |-> AllOf("absent"), quality |-> 0,
   overall |-> 0, validation |-> NoValidation, edited |-> FALSE]

\* discover_website_structure, the AI calls: the correlation answer if
\* its quality is above 0.6, else the answer of the original prompt with
\* the confidence the AI reports.
ChosenAnswer(corr, fall) ==
  IF corr.selectors /\ Quality(corr.container, corr.items) > CorrelationThreshold
  THEN [selectors |-> TRUE, container |-> corr.container, items |-> corr.items,
        quality |-> Quality(corr.container, corr.items),
        overall |-> Quality(corr.container, corr.items),
        validation |-> NoValidation, edited |-> FALSE]
  ELSE IF fall.selectors
  THEN [selectors |-> TRUE, container |-> fall.container, items |-> fall.items,
        quality |-> Quality(fall.container, fall.items),
        overall |-> fall.reported,
        validation |-> NoValidation, edited |-> FALSE]
  ELSE NoDiscovery

ChosenAnswers == {ChosenAnswer(corr, fall) : corr \in AiAnswers, fall \in AiAnswers}

\* discover_website_structure: the chosen answer with the report of its
\* validation against the page.
DiscoverWebsiteStructure(answer, html) ==
  IF answer.selectors
  THEN [answer EXCEPT !.validation = ValidateAgainstHtml(answer.container, answer.items, html)]
  ELSE NoDiscovery

\* What discovery can return for a page.
DiscoveryResults(html) == {DiscoverWebsiteStructure(answer, html) : answer \in ChosenAnswers}

\* What the operator answers to review_and_edit_selectors: accept, skip,
\* an edit that sets another container, or nothing when input() has
\* nothing to read and raises.
Reviews ==
  [choice : {"accept", "skip", "raise"}, container : {""}]
    \cup [choice : {"edit"}, container : Containers]

\* save_selectors_to_db: only the fields that have a selector.
DbItems(items) == [f \in RequiredFields |-> IF HasSelector(items[f]) THEN items[f] ELSE "absent"]

\* _ensure_all_required_fields: missing fields become "".
EnsureAllRequiredFields(items) ==
  [f \in RequiredFields |-> IF items[f] = "absent" THEN "empty" ELSE items[f]]

\* One save_selectors call of discovery, with what the validation said of
\* the bundle it writes.
WriteOf(at, result) ==
  [at |-> at, container |-> result.container, edited |-> result.edited,
   overall |-> result.overall,
   container_matches |-> result.validation.container_matches,
   adjusted_confidence |-> result.validation.adjusted_confidence]

IdleDisc ==
  /\ dPc = "idle"
  /\ dHtml = [containerMatches |-> 0, working |-> {}]
  /\ dSelectors = Null
  /\ dCache = NoDiscovery
  /\ dWrites = {}
  /\ parses = 0

\* Step C: selectors = self.db.get_selectors(response.url)
LookupSelectors ==
  /\ dPc = "stepC"
  /\ \E res \in GetResults(selRows, DiscUrl) :
       /\ dSelectors' = res
       /\ dPc' = IF res.container = NULL THEN "discover" ELSE "stepD"
  /\ dWrites' = {}
  /\ UNCHANGED <<dHtml, dCache, parses>>
  /\ UNCHANGED otherThanDisc

\* Step C, nothing stored: discovery_service.discover_and_save, then the
\* selectors of this parse.
DiscoverAndSave(result) ==
  /\ dPc = "discover"
  /\ LET saved == /\ result.selectors
                  /\ result.overall > SaveThresholdService
                  /\ result.container # ""
         bundle == [container |-> result.container, items |-> DbItems(result.items)]
         rows == IF saved THEN SaveRows(selRows, DiscUrl, bundle) ELSE selRows
     IN /\ selRows' = rows
        /\ dWrites' = IF saved THEN {WriteOf("discover_and_save", result)} ELSE {}
        /\ \E res \in GetResults(rows, DiscUrl) :
             dSelectors' =
               IF ~result.selectors THEN Null
               ELSE IF saved THEN res
               ELSE IF result.overall > SaveThresholdService THEN bundle
               ELSE Null
  /\ dPc' = "stepD"
  /\ UNCHANGED <<dHtml, dCache, parses, selLast, lastPut>>
  /\ UNCHANGED otherThanDiscSel

\* Step D: extract_with_selectors, when there are selectors.
FastPathWithSelectors(found) ==
  /\ dPc = "stepD"
  /\ found => dSelectors.container # NULL
  /\ dPc' = IF found THEN "done" ELSE "stepE"
  /\ dWrites' = {}
  /\ UNCHANGED <<dHtml, dSelectors, dCache, parses>>
  /\ UNCHANGED otherThanDisc

\* Step E: orchestrator.scrape_new_website, then parse saves what the
\* orchestrator cached.
ScrapeNewWebsite(found, review) ==
  /\ dPc = "stepE"
  /\ LET cached == dCache.selectors
         result == IF cached THEN dCache ELSE found
         discovered == ~cached /\ result.selectors
         first == [container |-> result.container,
                   items |-> EnsureAllRequiredFields(result.items)]
         afterFirst == IF discovered THEN SaveRows(selRows, DiscUrl, first) ELSE selRows
         isEdit == discovered /\ review.choice = "edit" /\ review.container # result.container
         reviewed == IF isEdit
                     THEN [result EXCEPT !.container = review.container, !.edited = TRUE]
                     ELSE result
         second == [container |-> reviewed.container,
                    items |-> EnsureAllRequiredFields(reviewed.items)]
         afterSecond == IF isEdit THEN SaveRows(afterFirst, DiscUrl, second) ELSE afterFirst
         returns == cached \/ (discovered /\ review.choice \in {"accept", "edit"})
         cache == IF returns THEN reviewed ELSE dCache
         third == [container |-> cache.container, items |-> cache.items]
         spiderSaves == returns /\ cache.quality > SaveThresholdSpider
     IN /\ selRows' = IF spiderSaves THEN SaveRows(afterSecond, DiscUrl, third) ELSE afterSecond
        /\ dCache' = cache
        /\ dWrites' =
             (IF discovered THEN {WriteOf("scrape_new_website", result)} ELSE {})
             \cup (IF isEdit THEN {WriteOf("review", reviewed)} ELSE {})
             \cup (IF spiderSaves THEN {WriteOf("parse", cache)} ELSE {})
  /\ dPc' = "done"
  /\ UNCHANGED <<dHtml, dSelectors, parses, selLast, lastPut>>
  /\ UNCHANGED otherThanDiscSel

\* The spider gets the next response of the domain.
NextResponse ==
  /\ dPc = "done"
  /\ parses < MaxParses
  /\ parses' = parses + 1
  /\ dPc' = "stepC"
  /\ dSelectors' = Null
  /\ dWrites' = {}
  /\ UNCHANGED <<dHtml, dCache>>
  /\ UNCHANGED otherThanDisc

\* The table before the parse: empty, or holding a bundle for the URL.
InitSelSeeded ==
  /\ selRows \in {{}, {[domain |-> "d", url_pattern |-> <<"/", "e">>,
                         container |-> "div.event", items |-> DbItems(AllOf("both"))]}}
  /\ selLast = [op |-> "none", url |-> NoUrl, bundle |-> Null]
  /\ lastPut = [url |-> NoUrl, bundle |-> Null]

InitDisc ==
  /\ dPc = "stepC"
  /\ dHtml \in Htmls
  /\ dSelectors = Null
  /\ dCache = NoDiscovery
  /\ dWrites = {}
  /\ parses = 1

NextDisc ==
  \/ LookupSelectors
  \/ \E result \in DiscoveryResults(dHtml) : DiscoverAndSave(result)
  \/ \E found \in BOOLEAN : FastPathWithSelectors(found)
  \/ \E found \in DiscoveryResults(dHtml), review \in Reviews :
       ScrapeNewWebsite(found, review)
  \/ NextResponse

\* ------------------------------------------------------------- emission
\* What universal_spider.parse and parse_details yield for one listing
\* URL.  A date is a day number; CrawlToday is datetime.now().date().
MaxRaw == 2   \* events, cards or day blocks the handler reads from a page

CrawlToday == 100
YearDays == 365
GenericLimitDays == 31    \* parse, step E: limit_date
TekniskaLimitDays == 45   \* Tekniska handler: limit_date
ModernaLimitDays == 45    \* Moderna handler: limit_date

EmitSites == {"other", "biblioteket", "tekniska", "armemuseum", "moderna", "skansen"}
GenericSites == {"other", "biblioteket"}

\* A date as the page gives it: an ISO date, an ISO-shaped string that
\* is no date ("2026-13-45"), a Swedish day and month without a year, or
\* text with no date in it.
Iso(d) == [kind |-> "iso", day |-> d]
BadIso == [kind |-> "badiso", day |-> 0]
DayMonth(d) == [kind |-> "daymonth", day |-> d]
Junk == [kind |-> "junk", day |-> 0]
NoRaw == [kind |-> "none", day |-> 0]

\* The string parse_swedish_date returns: ok is "not None", valid is
\* whether strptime(..., "%Y-%m-%d") accepts it, day the date it names.
NoParse == [ok |-> FALSE, valid |-> FALSE, day |-> 0]

\* parse_swedish_date: an ISO-shaped prefix is returned as it is; a day
\* and month get this year, or the next one when they are before today.
ParseSwedishDate(raw, today) ==
  IF raw.kind = "iso" THEN [ok |-> TRUE, valid |-> TRUE, day |-> raw.day]
  ELSE IF raw.kind = "badiso" THEN [ok |-> TRUE, valid |-> FALSE, day |-> 0]
  ELSE IF raw.kind = "daymonth"
  THEN [ok |-> TRUE, valid |-> TRUE,
        day |-> IF raw.day < today THEN raw.day + YearDays ELSE raw.day]
  ELSE NoParse

\* The dicts extract_with_selectors or the orchestrator hand to parse.
\* time is the list of time slots of the string; detail tells whether
\* the event has a URL of its own and, if so, whether its description is
\* missing or short.
\* The event names a page shows.
EventNames == {"a", "b"}

RawEvents ==
  [event_name : {"a"},
   date_iso : {Iso(CrawlToday - 1), Iso(CrawlToday), Iso(CrawlToday + 31),
               Iso(CrawlToday + 32), DayMonth(CrawlToday), Junk},
   time : {<<"10:00">>, <<"14:00">>},
   detail : {"no_url", "url", "url_short"}]

\* A card of the Tekniska or Armemuseum calendar: name and date range.
\* A range is written with its end not before its start; a day and
\* month without a year mean the day nearest to today.
RawCards ==
  {c \in [event_name : {"a"},
          start : {Iso(CrawlToday - 1), Iso(CrawlToday), Iso(CrawlToday + 45),
                   Iso(CrawlToday + 46), DayMonth(CrawlToday - 1), BadIso, Junk},
          end : {NoRaw, Iso(CrawlToday + 2), DayMonth(CrawlToday + 2)}] :
     c.end # NoRaw => c.start.kind \in {"iso", "daymonth"} /\ c.start.day <= c.end.day}

\* A .calendar__day block of Moderna: its data-date and the time slots
\* of the entries of the one event it lists.
RawDayBlocks ==
  [date : {Iso(CrawlToday - 1), Iso(CrawlToday), Iso(CrawlToday + 45),
           Iso(CrawlToday + 46), BadIso},
   times : {<<>>, <<"10:00">>, <<"10:00", "14:00">>}]

\* The sequences of at most n elements of S.
SeqUpTo(S, n) == UNION {[1..k -> S] : k \in 0..n}

Range(s) == {s[i] : i \in 1..Len(s)}

\* The AI path's consolidation: one entry per (event_name, date_iso) as
\* extracted, the first one kept, with the time slots of the later ones
\* joined to it by ", ".
RECURSIVE Consolidate(_, _)
Consolidate(done, rest) ==
  IF rest = <<>> THEN done
  ELSE LET event == Head(rest)
           same == {j \in 1..Len(done) : /\ done[j].event_name = event.event_name
                                          /\ done[j].date_iso = event.date_iso}
       IN IF same = {}
          THEN Consolidate(Append(done, event), Tail(rest))
          ELSE LET j == CHOOSE x \in same : TRUE
                   slots == SelectSeq(event.time, LAMBDA t : t \notin Range(done[j].time))
               IN Consolidate([done EXCEPT ![j].time = done[j].time \o slots], Tail(rest))

\* parse, step E: what becomes of one extracted event: dropped, yielded,
\* or asked for on its detail page.
Outcome(event, site, today) ==
  LET date == ParseSwedishDate(event.date_iso, today)
  IN IF ~date.ok \/ ~date.valid THEN "drop"
     ELSE IF ~(today <= date.day /\ date.day <= today + GenericLimitDays) THEN "drop"
     ELSE IF /\ site = "biblioteket" \/ event.detail = "url_short"
             /\ event.detail # "no_url"
          THEN "request"
     ELSE "yield"

ItemOf(event, today) ==
  [event_name |-> event.event_name,
   date_iso |-> ParseSwedishDate(event.date_iso, today),
   end_date_iso |-> NoParse,
   time |-> event.time]

\* The items parse yields itself, in the order of the extracted events.
YieldedItems(extracted, site, today) ==
  LET kept == SelectSeq(extracted, LAMBDA e : Outcome(e, site, today) = "yield")
  IN [i \in 1..Len(kept) |-> ItemOf(kept[i], today)]

\* The detail requests parse yields, each with the item it carries.
RequestedItems(extracted, site, today) ==
  LET kept == SelectSeq(extracted, LAMBDA e : Outcome(e, site, today) = "request")
  IN [i \in 1..Len(kept) |-> ItemOf(kept[i], today)]

\* The Tekniska handler's date filter for one card: a range is kept when
\* it has not ended and starts within the limit, a single day when it is
\* within [today, limit].
TekniskaKeeps(card, today) ==
  LET start == ParseSwedishDate(card.start, today)
      end == ParseSwedishDate(card.end, today)
  IN /\ start.ok /\ start.valid
     /\ IF end.ok
        THEN end.valid /\ end.day >= today /\ start.day <= today + TekniskaLimitDays
        ELSE today <= start.day /\ start.day <= today + TekniskaLimitDays

CardItem(card, today) ==
  [event_name |-> card.event_name,
   date_iso |-> ParseSwedishDate(card.start, today),
   end_date_iso |-> ParseSwedishDate(card.end, today),
   time |-> <<>>]

\* The Moderna handler: the index of the first day block past the limit,
\* where the loop breaks (blocks with an unreadable date are skipped).
FirstPastLimit(blocks, today) ==
  LET past == {i \in 1..Len(blocks) :
                 /\ blocks[i].date.kind = "iso"
                 /\ blocks[i].date.day > today + ModernaLimitDays}
  IN IF past = {} THEN Len(blocks) + 1 ELSE CHOOSE i \in past : \A j \in past : i <= j

\* The items of one day block: one per entry, none for a past day.
RECURSIVE ModernaItems(_, _, _)
ModernaItems(blocks, last, today) ==
  IF last = 0 THEN <<>>
  ELSE LET block == blocks[last]
           kept == block.date.kind = "iso" /\ block.date.day >= today
           items == IF kept
                    THEN [i \in 1..Len(block.times) |->
                            [event_name |-> "a",
                             date_iso |-> ParseSwedishDate(block.date, today),
                             end_date_iso |-> NoParse,
                             time |-> <<block.times[i]>>]]
                    ELSE <<>>
       IN ModernaItems(blocks, last - 1, today) \o items

\* The calendars the Skansen handler steps through: for each day shown,
\* the names listed on it.  The days are consecutive from today.
SkansenCalendars == SeqUpTo(SUBSET EventNames, MaxDays)

\* What the AI reads from a detail page of a generic site: the JSON
\* object with the fields the item is built from.
DetailAnswers ==
  LET answer(name, date) ==
        [event_name |-> name, date_iso |-> date, end_date_iso |-> NoRaw, time |-> <<"10:00">>]
  IN {answer(name, Iso(CrawlToday + 5)) : name \in EventNames}
     \cup {answer("a", Iso(CrawlToday + 60)), answer("a", Junk)}

IdleEmit ==
  /\ eSite = "other"
  /\ ePc = "idle"
  /\ eRaw = <<>>
  /\ eEmitted = <<>>
  /\ eRequests = <<>>

InitEmit ==
  /\ eSite \in EmitSites
  /\ ePc = "listing"
  /\ eRaw = <<>>
  /\ eEmitted = <<>>
  /\ eRequests = <<>>

AfterListing(requests) == IF requests = <<>> THEN "done" ELSE "details"

\* parse of a site without a handler of its own: steps D and E, then the
\* date filter.  fast tells whether the stored selectors extracted the
\* events (step D) or the orchestrator did (step E, with consolidation).
GenericListing ==
  /\ ePc = "listing" /\ eSite \in GenericSites
  /\ \E raw \in SeqUpTo(RawEvents, MaxRaw), fast \in BOOLEAN :
       /\ fast => raw # <<>>
       /\ LET extracted == IF fast THEN raw ELSE Consolidate(<<>>, raw)
              requests == RequestedItems(extracted, eSite, CrawlToday)
          IN /\ eEmitted' = YieldedItems(extracted, eSite, CrawlToday)
             /\ eRequests' = requests
             /\ ePc' = AfterListing(requests)
             /\ eRaw' = [path |-> IF fast THEN "fast" ELSE "ai", events |-> raw]
  /\ UNCHANGED eSite
  /\ UNCHANGED otherThanEmit

\* parse_details of a generic site: the item is built anew from what the
\* AI reads on the detail page; without a date nothing is yielded.
DetailsOfItem(answer) ==
  /\ ePc = "details" /\ eSite \in GenericSites
  /\ LET date == ParseSwedishDate(answer.date_iso, CrawlToday)
         item == [event_name |-> answer.event_name,
                  date_iso |-> date,
                  end_date_iso |-> ParseSwedishDate(answer.end_date_iso, CrawlToday),
                  time |-> answer.time]
     IN eEmitted' = IF date.ok THEN Append(eEmitted, item) ELSE eEmitted
  /\ eRequests' = Tail(eRequests)
  /\ ePc' = AfterListing(Tail(eRequests))
  /\ UNCHANGED <<eSite, eRaw>>
  /\ UNCHANGED otherThanEmit

\* The Tekniska handler: one item per card its date filter keeps.
TekniskaListing ==
  /\ ePc = "listing" /\ eSite = "tekniska"
  /\ \E cards \in SeqUpTo(RawCards, MaxRaw) :
       LET kept == SelectSeq(cards, LAMBDA c : TekniskaKeeps(c, CrawlToday))
       IN /\ eEmitted' = [i \in 1..Len(kept) |-> CardItem(kept[i], CrawlToday)]
          /\ eRaw' = cards
  /\ ePc' = "done"
  /\ UNCHANGED <<eSite, eRequests>>
  /\ UNCHANGED otherThanEmit

\* The Armemuseum handler: one detail request per card whose start date
\* parse_swedish_date returns something for.
ArmemuseumListing ==
  /\ ePc = "listing" /\ eSite = "armemuseum"
  /\ \E cards \in SeqUpTo(RawCards, MaxRaw) :
       LET kept == SelectSeq(cards, LAMBDA c : ParseSwedishDate(c.start, CrawlToday).ok)
           requests == [i \in 1..Len(kept) |-> CardItem(kept[i], CrawlToday)]
       IN /\ eRequests' = requests
          /\ ePc' = AfterListing(requests)
          /\ eRaw' = cards
  /\ UNCHANGED <<eSite, eEmitted>>
  /\ UNCHANGED otherThanEmit

\* parse_details of an Armemuseum event: the item carries the name and
\* the dates of the card; reading the description may raise.
DetailsOfCard(raises) ==
  /\ ePc = "details" /\ eSite = "armemuseum"
  /\ eEmitted' = IF raises THEN eEmitted ELSE Append(eEmitted, Head(eRequests))
  /\ eRequests' = Tail(eRequests)
  /\ ePc' = AfterListing(Tail(eRequests))
  /\ UNCHANGED <<eSite, eRaw>>
  /\ UNCHANGED otherThanEmit

\* The Moderna handler: the entries of the day blocks from today up to
\* the first block past the limit.
ModernaListing ==
  /\ ePc = "listing" /\ eSite = "moderna"
  /\ \E blocks \in SeqUpTo(RawDayBlocks, MaxRaw) :
       /\ eEmitted' = ModernaItems(blocks, FirstPastLimit(blocks, CrawlToday) - 1, CrawlToday)
       /\ eRaw' = blocks
  /\ ePc' = "done"
  /\ UNCHANGED <<eSite, eRequests>>
  /\ UNCHANGED otherThanEmit

\* The Skansen handler: it buffers the names day by day, closes the page
\* and returns; the loop that would yield the buffer comes after the
\* return.
SkansenListing ==
  /\ ePc = "listing" /\ eSite = "skansen"
  /\ \E calendar \in SkansenCalendars : eRaw' = calendar
  /\ ePc' = "done"
  /\ UNCHANGED <<eSite, eEmitted, eRequests>>
  /\ UNCHANGED otherThanEmit

NextEmit ==
  \/ GenericListing
  \/ \E answer \in DetailAnswers : DetailsOfItem(answer)
  \/ TekniskaListing
  \/ ArmemuseumListing
  \/ \E raises \in BOOLEAN : DetailsOfCard(raises)
  \/ ModernaListing
  \/ SkansenListing

\* ---------------------------------------------------------- date ranges
\* The text of a date range and what events_spider.parse_swedish_date
\* and step E of universal_spider.parse make of it.  A date is the
\* number year*10000 + month*100 + day, which orders as the ISO string
\* does; 0 stands for None, "" and "N/A".
YearOf(date) == date \div 10000
MonthDayOf(date) == date % 10000
MonthOf(date) == (date % 10000) \div 100

\* Days of the year before each month, and the day count timedelta
\* arithmetic works on (no leap year among the years used).
DaysBeforeMonth == <<0, 31, 59, 90, 120, 151, 181, 212, 243, 273, 304, 334>>
Ordinal(date) == YearOf(date) * 365 + DaysBeforeMonth[MonthOf(date)] + (date % 100)

\* One side of a range: day and month as month*100 + day (0 when the
\* text holds no day and month) and the four-digit year (0 when absent).
NoPart == [md |-> 0, year |-> 0]
RangeParts == [md : {102, 103, 1222, 1228}, year : {0, 2026}] \cup {NoPart}

\* "none" is a single date, " - " a hyphen between spaces, "endash" an
\* en dash between spaces.
RangeTexts ==
  {t \in [start : RangeParts, end : RangeParts, sep : {"none", " - ", "endash"}] :
     t.sep = "none" => t.end = NoPart /\ t.start # NoPart}

RangeTodays == {20251115, 20251220, 20251230}

\* The first "<day> <month>" the regular expressions find in the text.
FirstPart(text) == IF text.start # NoPart THEN text.start ELSE text.end

\* events_spider.parse_swedish_date.parse_single
ParseSingle(part, default_year, today) ==
  IF part.md = 0 THEN 0
  ELSE LET year == IF part.year # 0 THEN part.year
                   ELSE IF default_year # 0 THEN default_year
                   ELSE YearOf(today)
       IN year * 10000 + part.md

\* events_spider.parse_swedish_date: (start_date, end_date)
ParseDateRange(text, today) ==
  LET end_dt == ParseSingle(text.end, 0, today)
      parsed == ParseSingle(text.start, YearOf(end_dt), today)
      start_dt == IF /\ parsed # 0
                     /\ MonthOf(parsed) > MonthOf(end_dt)
                     /\ YearOf(parsed) = YearOf(end_dt)
                  THEN parsed - 10000
                  ELSE parsed
  IN IF text.sep # "none" /\ end_dt # 0 /\ start_dt # 0
     THEN [date_iso |-> start_dt, end_date_iso |-> end_dt]
     ELSE [date_iso |-> ParseSingle(FirstPart(text), 0, today), end_date_iso |-> 0]

\* universal_spider.parse_swedish_date on a text: the first day and
\* month, with the first four-digit year of the whole text or, without
\* one, this year, or the next when the day is before today.
ParseYearless(text, today) ==
  LET part == FirstPart(text)
      stated == IF text.start.year # 0 THEN text.start.year ELSE text.end.year
      year == IF stated # 0 THEN stated
              ELSE IF part.md < MonthDayOf(today) THEN YearOf(today) + 1
              ELSE YearOf(today)
  IN IF part.md = 0 THEN 0 ELSE year * 10000 + part.md

OnlyPart(part) == [start |-> part, end |-> NoPart, sep |-> "none"]

NoOut == [by |-> "none", date_iso |-> 0, end_date_iso |-> 0]

IdleRange ==
  /\ rToday = 20251115
  /\ rText = OnlyPart([md |-> 1222, year |-> 0])
  /\ rOut = NoOut

InitRange ==
  /\ rToday \in RangeTodays
  /\ rText \in RangeTexts
  /\ rOut = NoOut

\* events_spider.parse_event_detail: the item's two dates.
ParseEventDetail ==
  /\ rOut.by = "none"
  /\ rOut' = [by |-> "events"] @@ ParseDateRange(rText, rToday)
  /\ UNCHANGED <<rToday, rText>>
  /\ UNCHANGED otherThanRange

\* universal_spider.parse, step E, of an event whose date text is both
\* its date_iso and its date_range_text: nothing is built for a date
\* outside [today, today + 31 days]; the end date is read only from a
\* text that " - " splits in two.
ParseGenericRange ==
  /\ rOut.by = "none"
  /\ LET date == ParseYearless(rText, rToday)
         kept == /\ date # 0
                 /\ Ordinal(rToday) <= Ordinal(date)
                 /\ Ordinal(date) <= Ordinal(rToday) + GenericLimitDays
         end == IF rText.sep = " - " THEN ParseYearless(OnlyPart(rText.end), rToday) ELSE 0
     IN rOut' = IF kept
                THEN [by |-> "universal", date_iso |-> date, end_date_iso |-> end]
                ELSE [by |-> "universal", date_iso |-> 0, end_date_iso |-> 0]
  /\ UNCHANGED <<rToday, rText>>
  /\ UNCHANGED otherThanRange

NextRange ==
  \/ ParseEventDetail
  \/ ParseGenericRange

\* ------------------------------------------------------------ pagination
\* The pagination actions on one browser session.  What the page shows
\* after each action is up to the page: every look at it is a
\* nondeterministic answer.
MaxCalls == 2   \* calls of handle_pagination on one session

HandlerMaxClicks == 10    \* PaginationHandler.max_clicks
StepCMaxClicks == 10      \* parse, step C: max_clicks

\* parse, step B: limit
StepBLimit(site) == IF site = "biblioteket" THEN 20 ELSE 40

PagSites == {"other", "biblioteket", "armemuseum"}

IdlePag ==
  /\ pEntry = "parse"
  /\ pSite = "other"
  /\ pPc = "idle"
  /\ pAttempts = 0
  /\ pCount = 0
  /\ pClicks = 0
  /\ pCalls = 0

\* parse runs the handler for the sites that are not is_known_site and
\* goes on to step B; a caller of handle_pagination alone calls it on
\* the session MaxCalls times.
InitPag ==
  /\ pEntry \in {"parse", "handle_pagination"}
  /\ pSite \in PagSites
  /\ pEntry = "handle_pagination" => pSite = "other"
  /\ pPc = IF pSite = "armemuseum" THEN "stepB" ELSE "call"
  /\ pAttempts = 0
  /\ pCount = 0
  /\ pClicks = 0
  /\ pCalls = 0

\* Where handle_pagination returns to.
AfterHandler ==
  IF pEntry = "parse" THEN "stepB"
  ELSE IF pCalls < MaxCalls THEN "call"
  ELSE "done"

\* handle_pagination is called: pagination_count = 0, strategy 1 first.
HandlePagination ==
  /\ pPc = "call"
  /\ pCalls' = pCalls + 1
  /\ pCount' = 0
  /\ pAttempts' = 0
  /\ pPc' = "load_more"
  /\ UNCHANGED <<pEntry, pSite, pClicks>>
  /\ UNCHANGED otherThanPag

\* One turn of a strategy's loop: while attempts < max_iterations and
\* the page shows the button or link, click it; when the loop ends the
\* handler returns if the strategy clicked at all and else tries the
\* next strategy.
StrategyTurn(shown, following) ==
  IF shown /\ pAttempts < HandlerMaxClicks
  THEN /\ pAttempts' = pAttempts + 1
       /\ pCount' = pCount + 1
       /\ pClicks' = pClicks + 1
       /\ UNCHANGED pPc
  ELSE /\ pPc' = IF pCount > 0 THEN AfterHandler ELSE following
       /\ pAttempts' = 0
       /\ UNCHANGED <<pCount, pClicks>>

\* _click_load_more_buttons
ClickLoadMoreButtons(shown) ==
  /\ pPc = "load_more"
  /\ StrategyTurn(shown, "next_page")
  /\ UNCHANGED <<pEntry, pSite, pCalls>>
  /\ UNCHANGED otherThanPag

\* _click_next_pagination
ClickNextPagination(shown) ==
  /\ pPc = "next_page"
  /\ StrategyTurn(shown, "url_param")
  /\ UNCHANGED <<pEntry, pSite, pCalls>>
  /\ UNCHANGED otherThanPag

\* _handle_url_pagination: one page load per page number from 2 to
\* max_iterations + 1, while the URL has the parameter and the load
\* does not fail.
HandleUrlPagination(loads) ==
  /\ pPc = "url_param"
  /\ StrategyTurn(loads, AfterHandler)
  /\ UNCHANGED <<pEntry, pSite, pCalls>>
  /\ UNCHANGED otherThanPag

\* parse, step B: up to `limit` rounds, each clicking the first shown
\* load button; the look at the button is outside the try.
StepBLoadMore(outcome) ==
  /\ pPc = "stepB"
  /\ IF outcome = "raise"
     THEN /\ pPc' = "raised"
          /\ UNCHANGED <<pAttempts, pCount, pClicks>>
     ELSE IF outcome = "click" /\ pAttempts < StepBLimit(pSite)
     THEN /\ pAttempts' = pAttempts + 1
          /\ pCount' = pCount + 1
          /\ pClicks' = pClicks + 1
          /\ UNCHANGED pPc
     ELSE /\ pPc' = IF pSite = "armemuseum" THEN "done" ELSE "stepC"
          /\ pAttempts' = 0
          /\ pCount' = 0
          /\ UNCHANGED pClicks
  /\ UNCHANGED <<pEntry, pSite, pCalls>>
  /\ UNCHANGED otherThanPag

\* parse, step C: while load_more_clicks < max_clicks, click the shown
\* and enabled button.
StepCLoadMore(shown) ==
  /\ pPc = "stepC"
  /\ IF shown /\ pCount < StepCMaxClicks
     THEN /\ pCount' = pCount + 1
          /\ pClicks' = pClicks + 1
          /\ UNCHANGED pPc
     ELSE /\ pPc' = "done"
          /\ UNCHANGED <<pCount, pClicks>>
  /\ UNCHANGED <<pEntry, pSite, pAttempts, pCalls>>
  /\ UNCHANGED otherThanPag

NextPag ==
  \/ HandlePagination
  \/ \E shown \in BOOLEAN : ClickLoadMoreButtons(shown)
  \/ \E shown \in BOOLEAN : ClickNextPagination(shown)
  \/ \E loads \in BOOLEAN : HandleUrlPagination(loads)
  \/ \E outcome \in {"click", "stop", "raise"} : StepBLoadMore(outcome)
  \/ \E shown \in BOOLEAN : StepCLoadMore(shown)

\* ------------------------------------------------ the dashboard's reject
\* The dashboard groups the events of the page by (event_name, date_iso);
\* the first event of a group gives the entry its fields, and the entry
\* links to the first event_url of the group.  sources are the ids of
\* the stored rows the events of the group come from.
GroupKeys(events) == {<<events[i].event_name, events[i].date_iso>> : i \in 1..Len(events)}

DisplayedEntry(events, key) ==
  LET group == SelectSeq(events, LAMBDA e : <<e.event_name, e.date_iso>> = key)
  IN [event_name |-> key[1], date_iso |-> key[2], event_url |-> group[1].event_url,
      sources |-> {group[i].id : i \in 1..Len(group)}]

NoReject == [entry |-> [event_name |-> NULL, date_iso |-> NoDate, event_url |-> NULL,
                        sources |-> {}],
             deleted |-> FALSE]

IdleReject == rejected = NoReject

\* The Reject button of an entry: delete_event with the entry's name,
\* date and first URL; when a row was deleted, st.rerun() runs the query
\* again.
RejectEvent ==
  /\ fResult.events # <<>>
  /\ \E key \in GroupKeys(fResult.events) :
       LET entry == DisplayedEntry(fResult.events, key)
           rows == {r \in fRows : KeyOf(r) # <<entry.event_name, entry.date_iso, entry.event_url>>}
           deleted == rows # fRows
       IN /\ fRows' = rows
          /\ rejected' = [entry |-> entry, deleted |-> deleted]
          /\ fResult' = IF deleted THEN GetEventsFiltered(rows, fQuery, FilterToday)
                        ELSE fResult
  /\ UNCHANGED fQuery
  /\ UNCHANGED otherThanFilterReject

\* The admin chooses the filters, then rejects entries of the page
\* shown; the page is queried again by the rerun after each rejection.
NextReject ==
  \/ \E q \in FilterQueries : rejected = NoReject /\ FilterCall(q)
  \/ RejectEvent

\* --------------------------------------------- seeding of the defaults
\* Two of the eleven default settings of _init_db, and the values the
\* settings page saves over them.
SettingKeys == {"schedule_frequency", "date_range_days"}
DefaultSettings == [k \in SettingKeys |-> IF k = "schedule_frequency" THEN "weekly" ELSE "45"]
SavedSettings == [k \in SettingKeys |-> IF k = "schedule_frequency" THEN "daily" ELSE "30"]

\* A database file no DatabaseManager has opened yet.
IdleSeed ==
  /\ dbCreated = FALSE
  /\ dbUrls = [u \in AllUrls |-> "absent"]
  /\ dbSettings = [k \in SettingKeys |-> "absent"]
  /\ adminDeleted = {}

\* DatabaseManager(): _init_db creates the tables that are missing, then
\* inserts default_urls when scraping_urls has no row and the default
\* settings when settings has no row.  The admin console constructs one
\* on every run of its script (each interaction and st.rerun()), the
\* spider and run_parallel on every start.
InitDb ==
  /\ dbCreated' = TRUE
  /\ dbUrls' = IF \A u \in AllUrls : dbUrls[u] = "absent"
               THEN [u \in AllUrls |-> IF u \in DefaultUrls THEN "enabled" ELSE "absent"]
               ELSE dbUrls
  /\ dbSettings' = IF \A k \in SettingKeys : dbSettings[k] = "absent"
                   THEN DefaultSettings
                   ELSE dbSettings
  /\ UNCHANGED adminDeleted
  /\ UNCHANGED otherThanSeed

\* The venue list's delete button: delete_scraping_url(url_data["id"]).
AdminDeleteUrl(u) ==
  /\ dbCreated
  /\ dbUrls[u] # "absent"
  /\ dbUrls' = [dbUrls EXCEPT ![u] = "absent"]
  /\ adminDeleted' = adminDeleted \cup {u}
  /\ UNCHANGED <<dbCreated, dbSettings>>
  /\ UNCHANGED otherThanSeed

\* The "Add New Venue" form: add_scraping_url inserts the URL enabled; the
\* UNIQUE constraint on url refuses a URL the table holds.
AdminAddUrl(u) ==
  /\ dbCreated
  /\ dbUrls' = [dbUrls EXCEPT ![u] = IF @ = "absent" THEN "enabled" ELSE @]
  /\ adminDeleted' = adminDeleted \ {u}
  /\ UNCHANGED <<dbCreated, dbSettings>>
  /\ UNCHANGED otherThanSeed

\* The venue list's checkbox: toggle_url(url_data["id"], is_enabled).
AdminToggleUrl(u) ==
  /\ dbCreated
  /\ dbUrls[u] # "absent"
  /\ dbUrls' = [dbUrls EXCEPT ![u] = IF @ = "enabled" THEN "disabled" ELSE "enabled"]
  /\ UNCHANGED <<dbCreated, dbSettings, adminDeleted>>
  /\ UNCHANGED otherThanSeed

\* save_setting(key, value): INSERT OR REPLACE.
SaveSetting(k) ==
  /\ dbCreated
  /\ dbSettings' = [dbSettings EXCEPT ![k] = SavedSettings[k]]
  /\ UNCHANGED <<dbCreated, dbUrls, adminDeleted>>
  /\ UNCHANGED otherThanSeed

NextSeed ==
  \/ InitDb
  \/ \E u \in AllUrls : AdminDeleteUrl(u)
  \/ \E u \in AllUrls : AdminAddUrl(u)
  \/ \E u \in AllUrls : AdminToggleUrl(u)
  \/ \E k \in SettingKeys : SaveSetting(k)

vars == <<storeVars, orderVars, runVars, crawlVars, filterVars, selVars, discVars, emitVars, rangeVars, pagVars, rejVars, seedVars>>

Init == InitStore /\ IdleOrder /\ IdleRun /\ IdleCrawl /\ IdleFilter /\ IdleSel /\ IdleDisc /\ IdleEmit /\ IdleRange /\ IdlePag /\ IdleReject /\ IdleSeed
Next == NextStore
Spec == Init /\ [][Next]_vars

InitTwoOrders == InitStore /\ InitOrder /\ IdleRun /\ IdleCrawl /\ IdleFilter /\ IdleSel /\ IdleDisc /\ IdleEmit /\ IdleRange /\ IdlePag /\ IdleReject /\ IdleSeed

InitRun == InitStore /\ IdleOrder /\ IdleRun /\ IdleCrawl /\ IdleFilter /\ IdleSel /\ IdleDisc /\ IdleEmit /\ IdleRange /\ IdlePag /\ IdleReject /\ IdleSeed
SpecRun == InitRun /\ [][NextRun]_vars
SpecOverlap == InitRun /\ [][NextOverlap]_vars

InitOneCrawl == InitStore /\ IdleOrder /\ IdleRun /\ InitCrawl /\ IdleFilter /\ IdleSel /\ IdleDisc /\ IdleEmit /\ IdleRange /\ IdlePag /\ IdleReject /\ IdleSeed
SpecCrawl == InitOneCrawl /\ [][NextCrawl]_vars
SpecOrder == InitTwoOrders /\ [][NextOrder]_vars

InitOneFilter == InitStore /\ IdleOrder /\ IdleRun /\ IdleCrawl /\ InitFilter /\ IdleSel /\ IdleDisc /\ IdleEmit /\ IdleRange /\ IdlePag /\ IdleReject /\ IdleSeed
SpecFilter == InitOneFilter /\ [][NextFilter]_vars
SpecReject == InitOneFilter /\ [][NextReject]_vars

InitOneSeed == InitStore /\ IdleOrder /\ IdleRun /\ IdleCrawl /\ IdleFilter /\ IdleSel /\ IdleDisc /\ IdleEmit /\ IdleRange /\ IdlePag /\ IdleReject /\ IdleSeed
SpecSeed == InitOneSeed /\ [][NextSeed]_vars

InitSel == InitStore /\ IdleOrder /\ IdleRun /\ IdleCrawl /\ IdleFilter /\ IdleSel /\ IdleDisc /\ IdleEmit /\ IdleRange /\ IdlePag /\ IdleReject /\ IdleSeed
SpecSel == InitSel /\ [][NextSel]_vars

InitOneDisc == InitStore /\ IdleOrder /\ IdleRun /\ IdleCrawl /\ IdleFilter /\ InitSelSeeded /\ InitDisc /\ IdleEmit /\ IdleRange /\ IdlePag /\ IdleReject /\ IdleSeed
SpecDisc == InitOneDisc /\ [][NextDisc]_vars

InitOneEmit == InitStore /\ IdleOrder /\ IdleRun /\ IdleCrawl /\ IdleFilter /\ IdleSel /\ IdleDisc /\ InitEmit /\ IdleRange /\ IdlePag /\ IdleReject /\ IdleSeed
SpecEmit == InitOneEmit /\ [][NextEmit]_vars

InitOneRange == InitStore /\ IdleOrder /\ IdleRun /\ IdleCrawl /\ IdleFilter /\ IdleSel /\ IdleDisc /\ IdleEmit /\ InitRange /\ IdlePag /\ IdleReject /\ IdleSeed
SpecRange == InitOneRange /\ [][NextRange]_vars

InitOnePag == InitStore /\ IdleOrder /\ IdleRun /\ IdleCrawl /\ IdleFilter /\ IdleSel /\ IdleDisc /\ IdleEmit /\ IdleRange /\ InitPag /\ IdleReject /\ IdleSeed
SpecPag == InitOnePag /\ [][NextPag]_vars

\* ------------------------------------------------------------- claims
\* C1: after any sequence of upsert, delete and delete_older_than
\* operations no two stored events share the same
\* (event_name, date_iso, event_url) triple.
UniqueTriple ==
  \A r1, r2 \in store : KeyOf(r1) = KeyOf(r2) => r1 = r2

\* An upsert hit an existing triple while another row was stored.
UniqueTripleWitness ==
  /\ lastCommit.op = "upsert"
  /\ lastCommit.repeat
  /\ Cardinality(store) = 2
  /\ commits >= 3

\* The non-identity fields of a row / of the event data of an upsert.
RowFields(r) ==
  <<r.end_date_iso, r.time, r.location, r.target_group, r.status,
    r.booking_info, r.description>>
DataFields(e) ==
  <<e.end_date_iso, e.time, e.location, e.target_group_normalized, e.status,
    e.booking_info, e.description>>

\* C2: when several workers upsert the same identity triple concurrently,
\* the row stored has every non-identity field equal to that of the upsert
\* that committed last, never a mix of fields of different upserts.
LastCommittedWins ==
  lastCommit.op = "upsert" =>
    \A r \in store :
      KeyOf(r) = KeyOf(lastCommit.e) => RowFields(r) = DataFields(lastCommit.e)

\* Two workers are upserting one triple with different fields at the same
\* time: one holds the write lock, the other one has committed just before,
\* and the row carries the fields of the committed one.
LastCommittedWinsWitness ==
  /\ lastCommit.op = "upsert"
  /\ \E r \in store :
       /\ KeyOf(r) = KeyOf(lastCommit.e)
       /\ RowFields(r) = DataFields(lastCommit.e)
       /\ r.id = 1
       /\ commits >= 2
  /\ \E w \in Workers :
       /\ pcW[w] = "executed"
       /\ KeyOf(pend[w]) = KeyOf(lastCommit.e)
       /\ DataFields(pend[w]) # DataFields(lastCommit.e)
  /\ \E w \in Workers :
       /\ pcW[w] = "calling"
       /\ KeyOf(pend[w]) = KeyOf(lastCommit.e)

\* The events table without the last_scraped column.
WithoutLastScraped(rows) ==
  {[id |-> r.id, key |-> KeyOf(r), fields |-> RowFields(r)] : r \in rows}

\* C3: upsert(E); upsert(E) leaves the store identical to upsert(E), except
\* for last_scraped: a commit of the upsert that was committed just before
\* changes no row except in last_scraped.
UpsertIdempotent ==
  [][(/\ lastCommit.op = "upsert"
      /\ commits' = commits + 1
      /\ lastCommit'.op = "upsert"
      /\ lastCommit'.e = lastCommit.e)
     => WithoutLastScraped(store') = WithoutLastScraped(store)]_vars

\* The same upsert was committed twice in a row, on different days.
UpsertIdempotentWitness ==
  /\ lastCommit.op = "upsert"
  /\ lastCommit.repeat
  /\ \E r \in store : KeyOf(r) = KeyOf(lastCommit.e) /\ r.last_scraped = Today0 + 1

\* The events of a database as the data model has them: no row id, no
\* last_scraped.
Events(tbl) ==
  {[key |-> KeyOf(r), fields |-> RowFields(r)] : r \in tbl.rows}

BothApplied == ordA = <<>> /\ ordB = <<>> /\ coll # <<>>

NoConflictingUpserts ==
  \A i, j \in 1..Len(coll) :
    KeyOf(coll[i]) = KeyOf(coll[j]) => DataFields(coll[i]) = DataFields(coll[j])

HandlerFinishes(r) == hPc[r] # "idle" /\ hPc'[r] = "idle"

\* The URLs of run r whose spider exceeds the per-URL time limit.
TimedOut(r) == {i \in Idx : sp[r][i] \in {"hung", "timeout"}}

\* The URLs of run r whose worker failed: no output, an exception, a timeout.
Failed(r) == {i \in Idx : sp[r][i] \in {"none", "hung", "timeout"}}

\* C5: when a URL's worker exceeds the per-URL timeout, the run still
\* completes, the run's log entry counts that URL as a failure, and no
\* events of that URL are merged into the run's result.
TimeoutIsOneFailure ==
  [][\A r \in Runs :
       (HandlerFinishes(r) /\ TimedOut(r) # {}) =>
          /\ mPc[r] = "exited"
          /\ Len(runLog') = Len(runLog) + 1
          /\ runLog'[Len(runLog')].failures >= Cardinality(TimedOut(r))
          /\ \A t \in merged[r] : t[2] \notin TimedOut(r)]_vars

\* C6: a failure inside one URL's worker never aborts the run: a run with a
\* failed worker leaves the pool only through merge_results, with every
\* URL crawled.
WorkerFailureNeverAborts ==
  [][\A r \in Runs :
       (Failed(r) # {} /\ mPc[r] = "pool" /\ mPc'[r] # "pool") =>
          /\ mPc'[r] = "exited"
          /\ \A i \in Idx : sp[r][i] # "pending"]_vars

\* The status the rule gives to an entry with these counts.
StatusRule(events, failures) ==
  IF failures >= 1 /\ events = 0 THEN "Error"
  ELSE IF failures >= 1 THEN "Warn"
  ELSE "OK"

\* C7: every entry of the run log has status Error with zero events and at
\* least one failure, Warn with at least one failure and some events, and
\* OK otherwise.
LogStatusFollowsRule ==
  \A k \in 1..Len(runLog) :
    runLog[k].status = StatusRule(runLog[k].events_found, runLog[k].failures)

\* C8: every run appends exactly one entry to the run log: the handler of a
\* run never finishes without having appended one.
OneLogEntryPerRun ==
  [][\A r \in Runs : HandlerFinishes(r) => Len(runLog') = Len(runLog) + 1]_vars

\* C9: a run crawls exactly the URLs that were enabled when it started.
CrawlsEnabledAtStart ==
  \A r \in Runs : mPc[r] = "exited" => Crawled(r) = enabledAtStart[r]

\* ------------------------------------------------ the page: the claim
\* C10: on every exit path of parse and parse_details, by return or by an
\* exception, the page of the response has been closed.
PageReleasedOnExit ==
  cPc \in {"done", "raised"} => ~pageOpen

\* ----------------------------------------------- the query: the claims
FilterCalled == fQuery # NoQuery

\* The expanded list the last call paginated.
LastExpanded == ExpandedEvents(fRows, fQuery, FilterToday)

\* The entries of the stored row `id` in a list of events.
EntriesOf(events, id) == SelectSeq(events, LAMBDA e : e.id = id)

DatesOf(events) == {events[i].date_iso : i \in 1..Len(events)}

\* A stored event with a valid end date later than its start.
IsMultiDay(r) == r.end_date_iso # NoDate /\ r.end_date_iso > r.date_iso

\* C11: without a specific date, a stored multi-day event that matches the
\* query is expanded into exactly one entry for each day from
\* max(date_iso, today) to min(end_date_iso, today + 30), each with end
\* date N/A, and into no entry after today + 30.
ExpansionPerDay ==
  (FilterCalled /\ fQuery.filter_date = NoDate) =>
    \A r \in fRows :
      (IsMultiDay(r) /\ MatchesQuery(r, fQuery, FilterToday)) =>
        LET entries == EntriesOf(LastExpanded, r.id)
            lo == Max(r.date_iso, FilterToday)
            hi == Min(r.end_date_iso, FilterToday + 30)
        IN /\ DatesOf(entries) = lo..hi
           /\ Len(entries) = Cardinality(lo..hi)
           /\ \A i \in 1..Len(entries) : entries[i].end_date_iso = NoDate
           /\ \A i \in 1..Len(fResult.events) :
                fResult.events[i].id = r.id =>
                  /\ fResult.events[i].date_iso \in lo..hi
                  /\ fResult.events[i].end_date_iso = NoDate

\* A call returned entries of an event that runs from today + 25 to
\* today + 40: the last one is dated today + 30.
ExpansionPerDayWitness ==
  /\ FilterCalled /\ fQuery.filter_date = NoDate
  /\ \E r \in fRows : r.date_iso = FilterToday + 25 /\ r.end_date_iso = FilterToday + 40
  /\ fResult.total = 6
  /\ Len(fResult.events) = 6
  /\ fResult.events[6].date_iso = FilterToday + 30

\* The window a query asks for.
InWindow(d, q, today) ==
  IF q.filter_date # NoDate THEN d = q.filter_date
  ELSE IF q.date_range = "This Week" THEN today <= d /\ d <= today + 7
  ELSE IF q.date_range = "Next 30 Days" THEN today <= d /\ d <= today + 30
  ELSE TRUE

\* C12: every event a call returns is dated inside the requested window.
ReturnedInWindow ==
  FilterCalled =>
    \A i \in 1..Len(fResult.events) :
      InWindow(fResult.events[i].date_iso, fQuery, FilterToday)

RECURSIVE ConcatPages(_, _, _)
ConcatPages(expanded, perPage, lastPage) ==
  IF lastPage = 0 THEN <<>>
  ELSE ConcatPages(expanded, perPage, lastPage - 1) \o PageOf(expanded, lastPage, perPage)

IsSortedByDate(events) ==
  \A i \in 1..(Len(events) - 1) : events[i].date_iso <= events[i + 1].date_iso

\* C13: pagination comes after expansion: total is the number of expanded
\* events, a page holds at most per_page of them, and the pages
\* 1..ceil(total / per_page) put end to end are the date-sorted expanded
\* list.
PaginationAfterExpansion ==
  FilterCalled =>
    LET expanded == LastExpanded
        perPage == fQuery.per_page
        pages == (Len(expanded) + perPage - 1) \div perPage
    IN /\ fResult.total = Len(expanded)
       /\ Len(fResult.events) <= perPage
       /\ fResult.events = PageOf(expanded, fQuery.page, perPage)
       /\ fQuery.page <= pages =>
            /\ fResult.events # <<>>
            /\ fResult.events[1] = expanded[(fQuery.page - 1) * perPage + 1]
       /\ IsSortedByDate(expanded)
       /\ ConcatPages(expanded, perPage, pages) = expanded

\* A call returned the full second page of a list of more than two pages.
PaginationAfterExpansionWitness ==
  /\ FilterCalled
  /\ fQuery.page = 2 /\ fQuery.per_page = 2
  /\ Len(fResult.events) = 2
  /\ fResult.total > 4
  /\ Cardinality(fRows) = 2

\* ---- the selector store ----

\* Glob semantics for a url_pattern: "*" stands for any run of parts of
\* the path, every other part for itself.
RECURSIVE GlobMatch(_, _)
GlobMatch(pattern, path) ==
  IF pattern = <<>> THEN path = <<>>
  ELSE IF Head(pattern) = "*"
       THEN \E k \in 0..Len(path) :
              GlobMatch(Tail(pattern), SubSeq(path, k + 1, Len(path)))
       ELSE /\ path # <<>>
            /\ Head(path) = Head(pattern)
            /\ GlobMatch(Tail(pattern), Tail(path))

BundleOf(row) == [container |-> row.container, items |-> row.items]

\* The rows of the URL's domain whose pattern matches its path as a glob.
GlobRows(rows, url) ==
  {r \in DomainRows(rows, url) : GlobMatch(r.url_pattern, url.path)}

\* C14: get(url) returns the bundle with the longest url_pattern among
\* the bundles of the URL's domain whose pattern matches the path as a
\* glob, else a bundle of the domain, else null.
GetReturnsLongestGlobMatch ==
  selLast.op = "get" =>
    LET url == selLast.url
        matching == GlobRows(selRows, url)
        domain == DomainRows(selRows, url)
    IN IF matching # {}
       THEN \E r \in matching :
              /\ \A q \in matching : Len(q.url_pattern) <= Len(r.url_pattern)
              /\ selLast.bundle = BundleOf(r)
       ELSE IF domain # {}
            THEN \E r \in domain : selLast.bundle = BundleOf(r)
            ELSE selLast.bundle = Null

\* C15: after put(url, container, items), get(url) returns that container
\* and those items, and the store holds one bundle per
\* (domain, url_pattern).
GetAfterPutReturnsPut ==
  /\ \A r, q \in selRows : SelKey(r) = SelKey(q) => r = q
  /\ (selLast.op = "get" /\ selLast.url = lastPut.url) =>
       selLast.bundle = lastPut.bundle

\* ---- selector discovery ----

\* The bundles discovery itself wrote in the last step, the operator's
\* edits left out.
DiscoveredWrites == {w \in dWrites : ~w.edited}

\* C16: a crawl never writes to the selector store a discovered bundle
\* whose validation confidence is below 0.6.
NoLowConfidenceWrite ==
  \A w \in DiscoveredWrites : w.adjusted_confidence >= ValidThreshold

\* C17: every bundle discovery writes has a non-empty container selector
\* that matched at least one element of the HTML it was validated
\* against.
WrittenContainerMatched ==
  \A w \in DiscoveredWrites : w.container # "" /\ w.container_matches >= 1

\* ---- emission ----

\* The horizon of a site: 30 days, or the 45 days of the adapters that
\* override it.
DefaultHorizonDays == 30
OverrideHorizonDays == 45
HorizonDays(site) ==
  IF site \in {"tekniska", "moderna"} THEN OverrideHorizonDays ELSE DefaultHorizonDays

DaysSeen(calendar, name) == {k \in 1..Len(calendar) : name \in calendar[k]}

\* C20: the day-stepping adapter emits each event name it saw exactly
\* once, with date_iso the first day and end_date_iso the last day it
\* was seen on (N/A for a single day).
SkansenEmitsOncePerName ==
  (eSite = "skansen" /\ ePc = "done") =>
    \A name \in EventNames :
      LET seen == DaysSeen(eRaw, name)
          items == {i \in 1..Len(eEmitted) : eEmitted[i].event_name = name}
          first == CHOOSE k \in seen : \A m \in seen : k <= m
          last == CHOOSE k \in seen : \A m \in seen : m <= k
      IN IF seen = {} THEN items = {}
         ELSE /\ Cardinality(items) = 1
              /\ \A i \in items :
                   /\ eEmitted[i].date_iso.day = CrawlToday + first - 1
                   /\ eEmitted[i].end_date_iso =
                        IF first = last THEN NoParse
                        ELSE [ok |-> TRUE, valid |-> TRUE, day |-> CrawlToday + last - 1]

\* ---- date ranges ----

\* A range without years whose start month is later than its end month
\* and whose start day has not passed.
CrossYearText(text, today) ==
  /\ text.sep # "none"
  /\ text.start # NoPart /\ text.end # NoPart
  /\ text.start.year = 0 /\ text.end.year = 0
  /\ MonthOf(text.start.md) > MonthOf(text.end.md)
  /\ text.start.md >= MonthDayOf(today)

\* C21: a range without years whose start month is later than its end
\* month is resolved across the year boundary: the item built from it
\* has its date_iso in the current year and its end_date_iso in the
\* next one ("28 december - 3 januari" on 2025-12-20 gives 2025-12-28
\* and 2026-01-03).
CrossYearResolved ==
  (rOut.by # "none" /\ rOut.date_iso # 0 /\ CrossYearText(rText, rToday)) =>
    /\ rOut.date_iso = YearOf(rToday) * 10000 + rText.start.md
    /\ rOut.end_date_iso = (YearOf(rToday) + 1) * 10000 + rText.end.md

\* ---- selector mismatch ----

\* C22: when the stored bundle of the URL yields no records, so that
\* parse goes on to discovery (step E), the selector_configs rows are
\* left as they were.
MismatchKeepsStoredBundle ==
  [][(/\ dPc = "stepE" /\ dPc' = "done"
      /\ dSelectors.container # NULL
      /\ dSelectors \in GetResults(selRows, DiscUrl))
     => selRows' = selRows]_vars

\* ---- detail pages ----

PaginationWithinCap ==
  pEntry = "parse" => pClicks <= IF pSite = "biblioteket" THEN 40 ELSE 10

\* C25: a second call of handle_pagination on the same session performs
\* no further pagination action.
SecondCallDoesNothing ==
  [][pCalls >= 2 => pClicks' = pClicks]_vars

\* ---- temporary output files ----

\* C26: run_spider returns the output path of an index only when the
\* spider of the current run wrote that file, and merge_results collects
\* only events written by the spiders of its own run.
OnlyOwnOutputMerged ==
  \A r \in Runs :
    /\ \A i \in outputFiles[r] : sp[r][i] = "wrote"
    /\ \A e \in merged[r] : e[1] = r


\* C27: also when a scheduled and a manual run overlap, each run merges
\* exactly the events its own spiders wrote.
RunsMergeOwnEvents ==
  \A r \in Runs :
    mPc[r] = "exited" =>
      merged[r] = {<<r, i>> : i \in {j \in Idx : sp[r][j] = "wrote"}}

\* ---- the dashboard's reject ----

\* C29: rejecting an entry of the dashboard deletes the stored event or
\* events the entry was derived from.
RejectDeletesSource ==
  rejected # NoReject => \A r \in fRows : r.id \notin rejected.entry.sources


\* C30: a URL the admin deleted from scraping_urls stays deleted across
\* every later construction of DatabaseManager, until the admin adds it again.
DeletedUrlStaysDeleted ==
  \A u \in adminDeleted : dbUrls[u] = "absent"

====
